---------------------------- MODULE Spec2Model ----------------------------
(***************************************************************************)
(* VIC video stream capture of the ultimate64 crate (src/src/vicstream.rs),*)
(* its live feed (examples/egui.rs), two helpers of src/auxiliary.rs and  *)
(* the memory writes of the REST client (src/lib.rs).                      *)
(*                                                                         *)
(* capture_frame is modelled one recv_from call per step: the seek loop    *)
(* (lines 94-104) and the accumulate loop (lines 105-118), with the reused *)
(* receive buffer `buf`, the growing `frame` and the returned Result.      *)
(* `log` is a history variable: the outcome of every recv_from call and    *)
(* the loop it was made in. make_image is an operator that runs the two    *)
(* loops of the function; scale_image is an operator that gives the set of *)
(* results the call can have.                                               *)
(*                                                                         *)
(* Spec       capture_frame with recv_from ending in any way               *)
(* SpecStream capture_frame on the frames of a device, with loss           *)
(* SpecE2E    take_snapshot up to make_image on a scripted stream          *)
(* SpecCalls  capture_frame called repeatedly on one socket                *)
(* SpecLive   capture_frame while end-marker datagrams keep arriving       *)
(* SpecMarker the end-of-frame test on headers of chosen bytes             *)
(* SpecImage  take_snapshot up to scale_image on frames of chosen content  *)
(* SpecOpen   take_snapshot from get_socket to the sink                     *)
(* SpecAux    check_address_overflow and extract_load_address               *)
(* SpecFeed   the capture thread and the presentation thread of the feed    *)
(* SpecPair   two interleaved calls of capture_frame                        *)
(* SpecRest   write_mem, load_data and type_text of the REST client         *)
(***************************************************************************)
EXTENDS Integers, Sequences, FiniteSets, TLC

VARIABLES
    pc,      \* position of capture_frame: "seeking", "accumulating", "complete", "failed"
    frame,   \* let mut frame: Vec<u8>
    buf,     \* let mut buf = [0; 1024], kept as its front: see BufArray
    ret,     \* the value capture_frame returned, NoRet while it runs
    log,     \* history: <<[st, out]>> of every recv_from call, in call order
    stream,  \* datagrams sent to the socket and not yet received or lost
    lost,    \* history: the datagrams the network dropped
    img,     \* the raster make_image returned, NoImg before
    out,     \* what scale_image made of the raster, NoOut before
    calls,   \* capture_frame calls begun on the socket
    sock,    \* what get_socket returned, NoSock before
    snap,    \* what take_snapshot returned and gave to the sink, NoSnap before
    slot,    \* latest_frame of the live feed: Mutex<Option<ImageBuffer>>, its value
    mutex,   \* the thread that holds the lock of latest_frame, "free" if none
    feed,    \* position of the capture thread of the live feed in its loop body
    ui,      \* the presentation thread: its position and the value it read last
    prev,    \* history: what the call of capture_frame before this one returned
    other,   \* a second capture_frame call, while it is not scheduled
    aux,     \* a call of a function of auxiliary.rs: its name, argument, result
    task,    \* the call of the REST client that runs: its name, arguments, position
    wire     \* history: the POST requests the REST client has sent, in order

\* the variables the capture and the snapshot pipeline leave alone
rest == <<sock, snap, slot, mutex, feed, ui, prev, other, aux, task, wire>>

vars == <<pc, frame, buf, ret, log, stream, lost, img, out, calls, rest>>

---------------------------------------------------------------------------
(* Bounds of the model *)

\* recv_from calls made in one capture
MaxRecv == 5
\* frames the device sends, datagrams of one frame, payload bytes of one datagram
NFrames == 3
DgPerFrame == 3
DevPayload == 2
\* datagrams the network drops, receive timeouts while the device sends
MaxLost == 1
MaxQuiet == 1
\* capture_frame calls made in a row on one socket
MaxCalls == 2
\* whole rows of the frames that are decoded
MaxRows == 2

---------------------------------------------------------------------------
(* Constants of vicstream.rs *)

\* a marker shifted to the wrong bit
END_OF_FRAME_bit8 == 2^8
\* const END_OF_FRAME: u16 = 1 << 15
END_OF_FRAME == 2^15
\* const LINE_NUM_POS: usize = 4
LINE_NUM_POS == 4
\* const HEADER_LEN: usize = 12
HEADER_LEN == 12
\* let mut buf = [0; 1024]
BUF_LEN == 1024

---------------------------------------------------------------------------
(* Bytes and bit operations *)

Min(a, b) == IF a <= b THEN a ELSE b
Max(a, b) == IF a >= b THEN a ELSE b

RECURSIVE BitAnd(_, _)
\* u16::bitand
BitAnd(a, b) ==
    IF a = 0 \/ b = 0 THEN 0
    ELSE (IF a % 2 = 1 /\ b % 2 = 1 THEN 1 ELSE 0) + 2 * BitAnd(a \div 2, b \div 2)

\* a read that takes the first byte for the high one
read_u16_be(s) == 256 * s[1] + s[2]

\* LittleEndian::read_u16 of a two-byte slice
read_u16(s) == s[1] + 256 * s[2]

\* the slice b[from..to] of Rust (0-based, `to` excluded)
Slice(b, from, to) == SubSeq(b, from + 1, to)

---------------------------------------------------------------------------
(* Outcomes of UdpSocket::recv_from *)

DatagramOf(d) == [kind |-> "Datagram", err |-> "", data |-> d]
ErrorOf(e)    == [kind |-> "Err", err |-> e, data |-> <<>>]

\* The io::ErrorKind values a read on a socket with a read timeout can end
\* with: the timeout itself is reported as TimedOut or as WouldBlock,
\* depending on the platform; Other stands for every other failure.
TimeoutKinds == {"TimedOut", "WouldBlock"}
ErrorKinds   == TimeoutKinds \cup {"Other"}

\* recv_from(&mut buf): the datagram overwrites the front of the buffer, the
\* bytes behind it stay, and the length received is returned
recv_from(b, d) ==
    LET n == Min(Len(d), Len(b)) IN
    [len  |-> n,
     into |-> SubSeq(d, 1, n) \o SubSeq(b, n + 1, Len(b))]

\* The receive buffer is an array of BUF_LEN bytes, all zero at first. The
\* variable buf holds its front, up to the last byte any datagram has
\* written; behind it the array still holds the zeros of its initialisation.
BufArray == buf \o [i \in 1..(BUF_LEN - Len(buf)) |-> 0]
\* the array whose written front is b
ArrayOf(b) == b \o [i \in 1..(BUF_LEN - Len(b)) |-> 0]
Front(array, n) == SubSeq(array, 1, Max(Len(buf), n))

---------------------------------------------------------------------------
(* get_socket *)

\* Option<T>
None == <<>>
Some(s) == <<s>>

\* url.port().unwrap_or(11000)
DEFAULT_PORT == 11000

\* A host of a URL: its text, and the numbers between its dots when it is
\* written as four decimal numbers with dots
Host(text, octets) == [text |-> text, octets |-> octets]
MulticastHost == Host("239.0.1.64", <<239, 0, 1, 64>>)
UnicastHost == Host("10.0.0.1", <<10, 0, 0, 1>>)

\* Url::parse("udp://239.0.1.64:11000") of the live feed
FeedUrl == [host |-> Some(MulticastHost), port |-> Some(DEFAULT_PORT)]

\* Ipv4Addr::from_str(host): four numbers of one byte each
is_ipv4(h) ==
    /\ Len(h.octets) = 4
    /\ \A i \in 1..4 : h.octets[i] \in 0..255

\* the groups join_multicast_v4 accepts: 224.0.0.0/4
is_multicast(h) == h.octets[1] \in 224..239

\* the calls of get_socket that can fail for a reason outside the URL;
\* "none" when none of them does
SocketFailures ==
    {"none", "socket", "reuse_address", "reuse_port", "bind", "join", "read_timeout"}

SocketErr(url, at) == [kind |-> "Err", at |-> at, url |-> url]

\* a get_socket that ignores a failed join, as it ignores set_reuse_port
get_socket_join_ok(url, fail) ==
    IF url.host = None THEN SocketErr(url, "host")
    ELSE LET host == url.host[1]
             port == IF url.port = None THEN DEFAULT_PORT ELSE url.port[1]
         IN  IF ~is_ipv4(host) THEN SocketErr(url, "parse")
             ELSE IF fail \in {"socket", "reuse_address", "bind"}
             THEN SocketErr(url, fail)
             ELSE IF fail = "read_timeout" THEN SocketErr(url, fail)
             ELSE [kind |-> "Ok", port |-> port, group |-> host.text, url |-> url]

\* pub fn get_socket(url: &Url) -> Result<UdpSocket>: the steps in order,
\* each `?` returning the error of its step; set_reuse_port(true).ok()
\* drops its error
get_socket(url, fail) ==
    IF url.host = None THEN SocketErr(url, "host")
    ELSE LET host == url.host[1]
             port == IF url.port = None THEN DEFAULT_PORT ELSE url.port[1]
         IN  IF ~is_ipv4(host) THEN SocketErr(url, "parse")
             ELSE IF fail \in {"socket", "reuse_address", "bind"}
             THEN SocketErr(url, fail)
             ELSE IF fail = "join" \/ ~is_multicast(host) THEN SocketErr(url, "join")
             ELSE IF fail = "read_timeout" THEN SocketErr(url, fail)
             ELSE [kind |-> "Ok", port |-> port, group |-> host.text, url |-> url]

---------------------------------------------------------------------------
(* capture_frame *)

NoRet == [kind |-> "None", frame |-> <<>>]
NoImg == [width |-> 0, height |-> 0, pixels |-> <<>>, panic |-> FALSE]
NoOut == [kind |-> "None", scale |-> <<>>, img |-> NoImg]
NoSock == [kind |-> "None"]
NoSnap == [kind |-> "None", sink |-> NoImg]
NoAux == [fn |-> "none", arg |-> <<>>, res |-> <<>>]
NoOther == [id |-> 0]
NoTask == [fn |-> "none"]

\* the socket get_socket returns for udp://239.0.1.64:11000
FeedSocket == get_socket(FeedUrl, "none")

\* the presentation thread between two frames of the window: where it is
\* in VideoApp::update, what it last read from the slot, and its texture
UiIdle == [pc |-> "idle", read |-> None, shown |-> None]

\* capture_frame is called alone, with a socket that get_socket has opened:
\* no snapshot has returned, no live feed runs, no second call exists
RestInit ==
    /\ sock = FeedSocket
    /\ snap = NoSnap
    /\ slot = <<>>
    /\ mutex = "free"
    /\ feed = "capturing"
    /\ ui = UiIdle
    /\ prev = NoRet
    /\ other = NoOther
    /\ aux = NoAux
    /\ task = NoTask
    /\ wire = <<>>

\* a test that forgets the mask
bit15_nomask(b) ==
    Len(b) >= HEADER_LEN
    /\ read_u16(Slice(b, LINE_NUM_POS, LINE_NUM_POS + 2)) # 0

\* fn bit15_is_set(buf: &[u8]) -> bool
bit15_is_set(b) ==
    Len(b) >= HEADER_LEN
    /\ BitAnd(read_u16(Slice(b, LINE_NUM_POS, LINE_NUM_POS + 2)), END_OF_FRAME) # 0

\* a guard that takes every error for the timeout
is_timed_out_any(e) == TRUE

\* the match guard `e.kind() == ErrorKind::TimedOut`
is_timed_out(e) == e = "TimedOut"

\* slices that miss the received length or the header length
payload_slice_nolen(b, len) == Slice(b, HEADER_LEN, Len(b))
payload_slice_skip(b, len) == Slice(b, HEADER_LEN + 1, len)

\* &buf[HEADER_LEN..len]
payload_slice(b, len) == Slice(b, HEADER_LEN, len)

\* bail!("Failed to receive VIC data: {}", e): the function returns Err and
\* its locals, the frame among them, are dropped
Bail ==
    /\ pc' = "failed"
    /\ ret' = [kind |-> "Err", frame |-> <<>>]
    /\ frame' = <<>>
    /\ buf' = buf

\* One iteration of the first loop (lines 94-104)
SeekStep(o) ==
    /\ pc = "seeking"
    /\ log' = Append(log, [st |-> pc, out |-> o])
    /\ IF o.kind = "Datagram"
       THEN LET r == recv_from(BufArray, o.data) IN
            /\ buf' = Front(r.into, r.len)
            /\ pc' = IF bit15_is_set(r.into) THEN "accumulating" ELSE "seeking"
            /\ UNCHANGED <<frame, ret>>
       ELSE IF is_timed_out(o.err)
       THEN UNCHANGED <<pc, frame, buf, ret>>
       ELSE Bail

\* an accumulate loop that tests the marker before it appends the payload
AccumStepBreakFirst(o) ==
    /\ pc = "accumulating"
    /\ log' = Append(log, [st |-> pc, out |-> o])
    /\ IF o.kind = "Datagram"
       THEN LET r == recv_from(BufArray, o.data) IN
            /\ buf' = Front(r.into, r.len)
            /\ IF r.len >= HEADER_LEN
               THEN IF bit15_is_set(r.into)
                    THEN /\ pc' = "complete"
                         /\ ret' = [kind |-> "Ok", frame |-> frame]
                         /\ frame' = <<>>
                    ELSE /\ frame' = frame \o payload_slice(r.into, r.len)
                         /\ UNCHANGED <<pc, ret>>
               ELSE UNCHANGED <<pc, frame, ret>>
       ELSE IF is_timed_out(o.err)
       THEN UNCHANGED <<pc, frame, buf, ret>>
       ELSE Bail

\* One iteration of the second loop (lines 105-118); on the break the
\* function returns Ok(frame) (line 119)
AccumStep(o) ==
    /\ pc = "accumulating"
    /\ log' = Append(log, [st |-> pc, out |-> o])
    /\ IF o.kind = "Datagram"
       THEN LET r == recv_from(BufArray, o.data) IN
            /\ buf' = Front(r.into, r.len)
            /\ IF r.len >= HEADER_LEN
               THEN LET grown == frame \o payload_slice(r.into, r.len) IN
                    IF bit15_is_set(r.into)
                    THEN /\ pc' = "complete"
                         /\ ret' = [kind |-> "Ok", frame |-> grown]
                         /\ frame' = <<>>
                    ELSE /\ frame' = grown
                         /\ UNCHANGED <<pc, ret>>
               ELSE UNCHANGED <<pc, frame, ret>>
       ELSE IF is_timed_out(o.err)
       THEN UNCHANGED <<pc, frame, buf, ret>>
       ELSE Bail

\* One recv_from call of capture_frame, with outcome o
RecvStep(o) == SeekStep(o) \/ AccumStep(o)

\* let mut frame = Vec::with_capacity(..); let mut buf = [0; 1024]
CaptureInit ==
    /\ pc = "seeking"
    /\ frame = <<>>
    /\ buf = <<>>
    /\ ret = NoRet
    /\ log = <<>>

---------------------------------------------------------------------------
(* make_image *)

\* static COLORS: &[Rgb<u8>]
COLORS ==
    << <<0, 0, 0>>,       <<239, 239, 239>>, <<141, 47, 52>>,   <<106, 212, 205>>,
       <<152, 53, 164>>,  <<76, 180, 66>>,   <<44, 41, 177>>,   <<239, 239, 93>>,
       <<152, 78, 32>>,   <<91, 56, 0>>,     <<209, 103, 109>>, <<74, 74, 74>>,
       <<123, 123, 123>>, <<159, 239, 147>>, <<109, 106, 239>>, <<178, 178, 178>> >>

\* const IMAGE_WIDTH: usize = 384
IMAGE_WIDTH == 384
\* a row of one byte for each pixel
BYTES_PER_ROW_full == IMAGE_WIDTH
\* const BYTES_PER_ROW: usize = IMAGE_WIDTH / 2
BYTES_PER_ROW == IMAGE_WIDTH \div 2

\* ImageBuffer::new(width, height): every pixel zero, stored row by row
ImageBuffer_new(w, h) ==
    [width |-> w, height |-> h,
     pixels |-> <<>> \o [k \in 1..(w * h) |-> <<0, 0, 0>>],
     panic |-> FALSE]

\* ImageBuffer::put_pixel(x, y, pixel): panics outside the image
put_pixel(im, x, y, c) ==
    IF x < im.width /\ y < im.height
    THEN [im EXCEPT !.pixels[y * im.width + x + 1] = c]
    ELSE [im EXCEPT !.panic = TRUE]

\* a row count that rounds a partial row up
rows_round_up(fr) == (Len(fr) + BYTES_PER_ROW - 1) \div BYTES_PER_ROW

\* let rows = frame.len() / BYTES_PER_ROW
rows_of(fr) == Len(fr) \div BYTES_PER_ROW

\* a mask of five bits
lo_nibble_wide(byte) == BitAnd(byte, 31)

\* (byte & 0xf) as usize and (byte >> 4) as usize
lo_nibble(byte) == BitAnd(byte, 15)
hi_nibble(byte) == byte \div 16

\* COLORS[k]: indexing the table outside its length panics
in_table(k) == k < Len(COLORS)

\* The account of the pixel writes: hits[k] is how often put_pixel has
\* written the k-th pixel of the image
written(hits, im, x, y) ==
    IF x < im.width /\ y < im.height
    THEN [hits EXCEPT ![y * im.width + x + 1] = @ + 1]
    ELSE hits

\* a loop body that writes the high nibble to the left pixel
column_body_swapped(fr, y, x, st) ==
    IF st.broke \/ st.im.panic THEN st
    ELSE IF st.i >= Len(fr) THEN [st EXCEPT !.broke = TRUE, !.fired = TRUE]
    ELSE LET byte == fr[st.i + 1]
             lo == lo_nibble(byte)
             hi == hi_nibble(byte)
         IN  IF ~in_table(lo) \/ ~in_table(hi) THEN [st EXCEPT !.im.panic = TRUE]
             ELSE [st EXCEPT
                     !.im = put_pixel(put_pixel(st.im, 2 * x, y, COLORS[hi + 1]),
                                      2 * x + 1, y, COLORS[lo + 1]),
                     !.i = st.i + 1,
                     !.aligned = st.aligned /\ st.i = y * BYTES_PER_ROW + x,
                     !.hits = written(written(st.hits, st.im, 2 * x, y),
                                      st.im, 2 * x + 1, y)]

\* The body of the inner loop (lines 136-144) at column x. The loop state
\* is the running index i, the image, and whether the loop has hit `break`;
\* with it go three observations of the run: whether the guard of line 137
\* has ever fired, whether i was y * BYTES_PER_ROW + x at every read of the
\* frame, and the account of the pixel writes.
column_body(fr, y, x, st) ==
    IF st.broke \/ st.im.panic THEN st
    ELSE IF st.i >= Len(fr) THEN [st EXCEPT !.broke = TRUE, !.fired = TRUE]
    ELSE LET byte == fr[st.i + 1]
             lo == lo_nibble(byte)
             hi == hi_nibble(byte)
         IN  IF ~in_table(lo) \/ ~in_table(hi) THEN [st EXCEPT !.im.panic = TRUE]
             ELSE [st EXCEPT
                     !.im = put_pixel(put_pixel(st.im, 2 * x, y, COLORS[lo + 1]),
                                      2 * x + 1, y, COLORS[hi + 1]),
                     !.i = st.i + 1,
                     !.aligned = st.aligned /\ st.i = y * BYTES_PER_ROW + x,
                     !.hits = written(written(st.hits, st.im, 2 * x, y),
                                      st.im, 2 * x + 1, y)]

RECURSIVE column_loop(_, _, _, _, _)
\* for x in a..b { .. }: the bodies of the columns a..b in order. The range
\* is halved and its first half evaluated first, so that the evaluation
\* stays shallow; a panic in the first half ends the loop.
column_loop(fr, y, a, b, st) ==
    IF a >= b THEN st
    ELSE IF b = a + 1 THEN column_body(fr, y, a, st)
    ELSE LET m == (a + b) \div 2
             first == column_loop(fr, y, a, m, st)
         IN  IF first.im.panic THEN first ELSE column_loop(fr, y, m, b, first)

\* an inner loop that leaves out column 0
row_body_from1(fr, y, st) ==
    column_loop(fr, y, 1, BYTES_PER_ROW, [st EXCEPT !.broke = FALSE])

\* The body of the outer loop (lines 135-145) at row y: the inner loop over
\* 0..BYTES_PER_ROW; its `break` leaves the inner loop only
row_body(fr, y, st) ==
    column_loop(fr, y, 0, BYTES_PER_ROW, [st EXCEPT !.broke = FALSE])

RECURSIVE row_loop(_, _, _, _)
\* for y in a..b { .. }, evaluated like column_loop
row_loop(fr, a, b, st) ==
    IF a >= b THEN st
    ELSE IF b = a + 1 THEN row_body(fr, a, st)
    ELSE LET m == (a + b) \div 2
             first == row_loop(fr, a, m, st)
         IN  IF first.im.panic THEN first ELSE row_loop(fr, m, b, first)

\* the run of make_image on a frame: the loop state behind the last row
make_image_run(fr) ==
    LET rows == rows_of(fr)
    IN  row_loop(fr, 0, rows,
                 [i |-> 0, im |-> ImageBuffer_new(IMAGE_WIDTH, rows),
                  broke |-> FALSE, fired |-> FALSE, aligned |-> TRUE,
                  hits |-> <<>> \o [k \in 1..(IMAGE_WIDTH * rows) |-> 0]])

\* pub fn make_image(frame: &[u8]) -> ImageBuffer<Rgb<u8>, Vec<u8>>
make_image(fr) == make_image_run(fr).im

---------------------------------------------------------------------------
(* scale_image *)

\* A u32 product is computed on the 16-bit halves of its factors and held
\* as its two halves <<high, low>>, so that the arithmetic of the model
\* never leaves the integers the model checker has.
U16 == 2^16
value(h) == h[1] * U16 + h[2]

\* a * b of two u32 below 2^31: the product wrapped to 32 bits, and whether
\* the product overflowed the 32 bits
mul_u32(a, b) ==
    LET ah == a \div U16
        al == a % U16
        bh == b \div U16
        bl == b % U16
        \* al * bl, with al taken in two bytes
        t1 == (al \div 256) * bl
        t0 == (al % 256) * bl
        l  == t0 + ((t1 % 256) * 256)
        low_hi == (t1 \div 256) + (l \div U16)
        low_lo == l % U16
        \* the terms of weight 2^16
        m1 == ah * bl
        m2 == al * bh
        mid == (m1 % U16) + (m2 % U16) + (low_hi % U16)
        carry == (m1 \div U16) + (m2 \div U16) + (low_hi \div U16) + (mid \div U16)
    IN  [wrapped |-> <<mid % U16, low_lo>>,
         over |-> (ah * bh > 0) \/ (carry > 0)]

\* the source index the Nearest filter samples for output index o, when n
\* source pixels are resized to nn: the pixel under the centre of o
nearest(o, n, nn) == Min(((2 * o + 1) * n) \div (2 * nn), n - 1)

\* image::imageops::resize(&img, nwidth, nheight, FilterType::Nearest): an
\* image without pixels gives an empty image of the new size, an image of
\* the new size already is copied, any other is sampled
resize(im, nw, nh) ==
    IF im.width = 0 \/ im.height = 0 THEN ImageBuffer_new(nw, nh)
    ELSE IF nw = im.width /\ nh = im.height THEN im
    ELSE [width |-> nw, height |-> nh,
          pixels |-> <<>> \o
             [k \in 1..(nw * nh) |->
                LET X == (k - 1) % nw
                    Y == (k - 1) \div nw
                IN  im.pixels[nearest(Y, im.height, nh) * im.width
                              + nearest(X, im.width, nw) + 1]],
          panic |-> FALSE]

\* a scaler that takes no factor for the factor 2
scale_image_default2(im, scale) ==
    IF scale = Some(1) THEN {[kind |-> "Ok", img |-> im]}
    ELSE LET s == IF scale = None THEN 2 ELSE scale[1]
             w == mul_u32(im.width, s)
             h == mul_u32(im.height, s)
         IN  {[kind |-> "Ok", img |-> resize(im, value(w.wrapped), value(h.wrapped))]}

\* fn scale_image(img, scale: Option<u32>) -> Result<ImageBuffer>: the set
\* of results the call can have. img.width() * s and img.height() * s are
\* products of u32: a product that overflows panics in a build with
\* overflow checks and wraps in a build without. Memory is not modelled.
scale_image(im, scale) ==
    IF scale = Some(1) \/ scale = None THEN {[kind |-> "Ok", img |-> im]}
    ELSE LET s == scale[1]
             w == mul_u32(im.width, s)
             h == mul_u32(im.height, s)
             wrapped == [kind |-> "Ok",
                         img |-> resize(im, value(w.wrapped), value(h.wrapped))]
         IN  IF w.over \/ h.over
             THEN {[kind |-> "Panic", img |-> NoImg], wrapped}
             ELSE {wrapped}

---------------------------------------------------------------------------
(* Specification Spec: capture_frame on a socket whose recv_from calls end *)
(* in any way: a datagram of any of the lengths below, with the            *)
(* end-of-frame bit set or clear, or an error of any kind.                  *)

\* lengths of the datagrams received: below the marker field, between the
\* marker field and the header length, the bare header, header and payload
DgLens == {3, 8, 12, 14}

\* The k-th datagram received. Every byte carries k in its high nibble and
\* its offset in the low one, so a byte of the frame names the datagram and
\* the offset it came from; byte 5 holds the marker bit in bit 7.
Dg(k, len, eof) ==
    [i \in 1..len |-> IF i = LINE_NUM_POS + 2 THEN 128 * eof + k ELSE 16 * k + i]

Outcomes(k) ==
    {DatagramOf(Dg(k, len, eof)) : len \in DgLens, eof \in {0, 1}}
    \cup {ErrorOf(e) : e \in ErrorKinds}

Init ==
    /\ CaptureInit
    /\ stream = <<>>
    /\ lost = {}
    /\ img = NoImg
    /\ out = NoOut
    /\ calls = 1
    /\ RestInit

Receive ==
    /\ Len(log) < MaxRecv
    /\ \E o \in Outcomes(Len(log) + 1) : RecvStep(o)
    /\ UNCHANGED <<stream, lost, img, out, calls, rest>>

Next == Receive

Spec == Init /\ [][Next]_vars

---------------------------------------------------------------------------
(* What the datagrams on the wire say, read off the datagram itself and    *)
(* not off the receive buffer.                                              *)

\* bit 15 of the little-endian u16 at bytes [4..6) is bit 7 of byte 5
WireEof(d) == Len(d) >= 6 /\ (d[6] \div 128) % 2 = 1
\* the bytes [12..len) of a datagram of at least header length
WirePayload(d) == IF Len(d) >= 12 THEN SubSeq(d, 13, Len(d)) ELSE <<>>
WireFull(d) == Len(d) >= 12

RECURSIVE Concat(_)
Concat(ss) == IF ss = <<>> THEN <<>> ELSE Head(ss) \o Concat(Tail(ss))

Range(s) == {s[i] : i \in 1..Len(s)}
IsPrefix(p, s) == Len(p) <= Len(s) /\ SubSeq(s, 1, Len(p)) = p
IsSuffix(p, s) == Len(p) <= Len(s) /\ SubSeq(s, Len(s) - Len(p) + 1, Len(s)) = p

IsDg(e) == e.out.kind = "Datagram"
IsTimeout(e) == e.out.kind = "Err" /\ e.out.err \in TimeoutKinds
Running(p) == p \in {"seeking", "accumulating"}

\* the datagrams received, in arrival order, with the loop that received them
Dgs == SelectSeq(log, IsDg)
InSeek(e) == e.st = "seeking"
InAccum(e) == e.st = "accumulating"
SeekDgs == SelectSeq(Dgs, InSeek)
AccumDgs == SelectSeq(Dgs, InAccum)
DataOf(es) == [i \in 1..Len(es) |-> es[i].out.data]

\* the recv_from call a step makes, when it makes one
Called == Len(log') = Len(log) + 1
Call == log'[Len(log')]

---------------------------------------------------------------------------
(* Claims about capture_frame, checked under Spec *)

\* C1: capture_frame ends in one of two ways. It returns Ok with a buffer
\* only when the last recv_from call was made in the accumulate loop and
\* gave a datagram of at least header length with the end-of-frame bit set;
\* or it returns Err with no buffer. While it runs nothing is returned, so
\* a partly accumulated buffer is never returned as a frame.
C1_FrameOnlyAfterEndMarker ==
    /\ ret.kind \in {"None", "Ok", "Err"}
    /\ Running(pc) <=> ret.kind = "None"
    /\ ret.kind = "Ok" =>
          /\ pc = "complete"
          /\ log # <<>>
          /\ LET e == log[Len(log)] IN
                /\ e.st = "accumulating"
                /\ IsDg(e)
                /\ WireFull(e.out.data)
                /\ WireEof(e.out.data)
    /\ ret.kind = "Err" => pc = "failed" /\ ret.frame = <<>> /\ frame = <<>>
    /\ \A i \in 1..Len(log) :
          (i < Len(log) /\ log[i].st = "accumulating" /\ IsDg(log[i])
             /\ WireFull(log[i].out.data))
          => ~WireEof(log[i].out.data)

\* a frame of several datagrams has been returned
C1_Witness ==
    /\ ret.kind = "Ok"
    /\ Len(ret.frame) > 0
    /\ Len(AccumDgs) >= 2

\* C2: a timeout of recv_from, reported as TimedOut or as WouldBlock, never
\* aborts a capture: the call that times out in the seek loop or in the
\* accumulate loop leaves capture_frame in that loop, with nothing returned.
C2_TimeoutNeverAborts ==
    [][(Called /\ Running(pc) /\ IsTimeout(Call)) => (pc' = pc /\ ret' = NoRet)]_vars

\* C3 as stated: the returned buffer holds no byte of a datagram received
\* in the seek loop, and when the first datagram received (one of at least
\* header length) has the end-of-frame bit set, the buffer starts with the
\* second datagram received and the second datagram received with the
\* end-of-frame bit set is the one that ends it.
NoSeekByte ==
    \A i \in 1..Len(SeekDgs) : Range(SeekDgs[i].out.data) \cap Range(ret.frame) = {}

EofIdx(ds) == {i \in 1..Len(ds) : WireEof(ds[i])}

C3_SeekDiscardAnyDatagram ==
    ret.kind = "Ok" =>
       /\ NoSeekByte
       /\ LET ds == DataOf(Dgs) IN
          (WireFull(ds[1]) /\ WireEof(ds[1])) =>
             /\ Len(ds) >= 2
             /\ IsPrefix(WirePayload(ds[2]), ret.frame)
             /\ Cardinality(EofIdx(ds)) = 2
             /\ WireEof(ds[Len(ds)])
             /\ IsSuffix(WirePayload(ds[Len(ds)]), ret.frame)

\* C3 as amended: the returned buffer holds no byte of a datagram received
\* in the seek loop, and when the first datagram received (one of at least
\* header length) has the end-of-frame bit set, it is the only datagram of
\* the seek loop, and among the datagrams of at least header length received
\* after it the buffer starts with the first one and is ended by the first
\* one with the end-of-frame bit set; shorter datagrams received after the
\* first are skipped, whatever their bit.
C3_SeekDiscardFullDatagrams ==
    ret.kind = "Ok" =>
       /\ NoSeekByte
       /\ LET ds == DataOf(Dgs)
              full == SelectSeq(Tail(ds), WireFull)
          IN  (WireFull(ds[1]) /\ WireEof(ds[1])) =>
                 /\ Len(SeekDgs) = 1
                 /\ full # <<>>
                 /\ IsPrefix(WirePayload(full[1]), ret.frame)
                 /\ EofIdx(full) = {Len(full)}
                 /\ full[Len(full)] = ds[Len(ds)]
                 /\ IsSuffix(WirePayload(full[Len(full)]), ret.frame)

\* a frame has been returned after a first datagram with the bit set and a
\* short datagram with the bit set behind it
C3_Witness ==
    /\ ret.kind = "Ok"
    /\ WireEof(DataOf(Dgs)[1])
    /\ WireFull(DataOf(Dgs)[1])
    /\ \E i \in 2..Len(Dgs) : ~WireFull(Dgs[i].out.data) /\ WireEof(Dgs[i].out.data)
    /\ Len(ret.frame) >= 4

\* C4: the returned buffer is the concatenation, in arrival order, of the
\* bytes [12..len) of every datagram of at least header length received in
\* the accumulate loop, the end-marker datagram that completes the frame
\* included; that datagram is the first of them with the bit set.
C4_FrameIsPayloadConcat ==
    ret.kind = "Ok" =>
       LET full == SelectSeq(DataOf(AccumDgs), WireFull) IN
          /\ ret.frame = Concat([i \in 1..Len(full) |-> WirePayload(full[i])])
          /\ EofIdx(full) = {Len(full)}

\* a frame of two non-empty payloads has been returned
C4_Witness ==
    /\ ret.kind = "Ok"
    /\ LET full == SelectSeq(DataOf(AccumDgs), WireFull) IN
          /\ Len(full) >= 2
          /\ \A i \in 1..Len(full) : WirePayload(full[i]) # <<>>
    /\ Len(ret.frame) = 4

\* C5: a timeout of recv_from in the accumulate loop, reported as TimedOut
\* or as WouldBlock, leaves the frame buffer as it was and the capture in
\* the accumulate loop, so that payloads received before and after it both
\* reach the returned buffer.
C5_TimeoutKeepsBuffer ==
    [][(Called /\ pc = "accumulating" /\ IsTimeout(Call))
          => (frame' = frame /\ pc' = "accumulating")]_vars

\* C6: a datagram shorter than the header is dropped in either loop: the
\* call that receives it appends nothing, leaves capture_frame in its loop
\* and returns nothing.
C6_ShortDatagramDropped ==
    [][(Called /\ IsDg(Call) /\ Len(Call.out.data) < HEADER_LEN)
          => (frame' = frame /\ pc' = pc /\ ret' = ret)]_vars

\* C8: a recv_from error that is no timeout ends the capture at once, in
\* either loop: it is the last call of the capture, capture_frame has
\* returned Err, and the bytes accumulated so far are gone.
C8_FatalErrorEndsCapture ==
    \A i \in 1..Len(log) :
       (log[i].out.kind = "Err" /\ log[i].out.err \notin TimeoutKinds) =>
          /\ i = Len(log)
          /\ pc = "failed"
          /\ ret = [kind |-> "Err", frame |-> <<>>]
          /\ frame = <<>>

\* the capture has failed in the accumulate loop with payload accumulated
C8_Witness ==
    /\ pc = "failed"
    /\ log[Len(log)].st = "accumulating"
    /\ log[Len(log)].out.err = "Other"
    /\ \E i \in 1..Len(AccumDgs) : WirePayload(AccumDgs[i].out.data) # <<>>

---------------------------------------------------------------------------
(* Specification SpecStream: capture_frame on the stream of a device that  *)
(* sends NFrames frames of DgPerFrame datagrams each, the last datagram of *)
(* a frame carrying the end-of-frame bit. The client joins at any datagram *)
(* of the stream; the network may drop datagrams, and recv_from may time   *)
(* out between two of them.                                                 *)

\* The s-th datagram of frame f: a header with the marker bit in byte 5,
\* then DevPayload bytes that name the datagram and their offset in it.
DeviceDatagram(f, s) ==
    LET g == (f - 1) * DgPerFrame + s IN
    [i \in 1..(HEADER_LEN + DevPayload) |->
        IF i = LINE_NUM_POS + 2 THEN (IF s = DgPerFrame THEN 128 ELSE 0) + g
        ELSE IF i <= HEADER_LEN THEN g
        ELSE 4 * g + (i - HEADER_LEN - 1)]

DeviceStream ==
    [g \in 1..(NFrames * DgPerFrame) |->
        DeviceDatagram(((g - 1) \div DgPerFrame) + 1, ((g - 1) % DgPerFrame) + 1)]

\* the payload of the whole frame f, as the device sent it
FramePayloadOf(f) ==
    Concat([s \in 1..DgPerFrame |-> WirePayload(DeviceDatagram(f, s))])

InitStream ==
    /\ CaptureInit
    /\ \E j \in 1..Len(DeviceStream) :
          stream = SubSeq(DeviceStream, j, Len(DeviceStream))
    /\ lost = {}
    /\ img = NoImg
    /\ out = NoOut
    /\ calls = 1
    /\ RestInit

\* recv_from returns the next datagram of the stream
Deliver ==
    /\ stream # <<>>
    /\ RecvStep(DatagramOf(Head(stream)))
    /\ stream' = Tail(stream)
    /\ UNCHANGED <<lost, img, out, calls, rest>>

\* the network drops the next datagram of the stream
Lose ==
    /\ stream # <<>>
    /\ Running(pc)
    /\ Cardinality(lost) < MaxLost
    /\ stream' = Tail(stream)
    /\ lost' = lost \cup {Head(stream)}
    /\ UNCHANGED <<pc, frame, buf, ret, log, img, out, calls, rest>>

\* no datagram arrives within the read timeout of 200 ms
Quiet ==
    /\ Cardinality({i \in 1..Len(log) : IsTimeout(log[i])}) < MaxQuiet
    /\ \E e \in TimeoutKinds : RecvStep(ErrorOf(e))
    /\ UNCHANGED <<stream, lost, img, out, calls, rest>>

NextStream == Deliver \/ Lose \/ Quiet

SpecStream == InitStream /\ [][NextStream]_vars

---------------------------------------------------------------------------
(* Claims about capture_frame on a device stream, checked under SpecStream *)

IsDeviceFrame(b) == \E f \in 1..NFrames : b = FramePayloadOf(f)

\* C9 as stated: whatever the network drops, a buffer that capture_frame
\* returns is the whole payload of one device frame: it lacks no payload of
\* that frame and holds no byte of the frame after it.
C9_LossDetected ==
    ret.kind = "Ok" => IsDeviceFrame(ret.frame)

\* C9 as amended: loss is not detected. capture_frame returns the payloads
\* of the datagrams that reached it between two end-marker datagrams that
\* reached it, in arrival order; that buffer is the whole payload of one
\* device frame when the network dropped no datagram, and with a dropped
\* datagram it is returned all the same.
C9_LossNotDetected ==
    ret.kind = "Ok" =>
       /\ ret.frame = Concat([i \in 1..Len(AccumDgs) |->
                                 WirePayload(AccumDgs[i].out.data)])
       /\ WireEof(SeekDgs[Len(SeekDgs)].out.data)
       /\ EofIdx(DataOf(AccumDgs)) = {Len(AccumDgs)}
       /\ lost = {} => IsDeviceFrame(ret.frame)

\* with a datagram dropped, a buffer longer than a device frame has been
\* returned
C9_Witness ==
    /\ ret.kind = "Ok"
    /\ lost # {}
    /\ ~IsDeviceFrame(ret.frame)
    /\ Len(ret.frame) > DgPerFrame * DevPayload

\* C10: on a stream delivered without loss, wherever the client joined, the
\* first byte of the returned buffer is the first payload byte of the first
\* datagram of a device frame, the datagram sent right after an end-marker
\* datagram.
C10_StartsAtFrameStart ==
    (ret.kind = "Ok" /\ lost = {}) =>
       /\ ret.frame # <<>>
       /\ \E f \in 2..NFrames :
             /\ ret.frame[1] = WirePayload(DeviceDatagram(f, 1))[1]
             /\ WireEof(DeviceDatagram(f - 1, DgPerFrame))
             /\ SeekDgs[Len(SeekDgs)].out.data = DeviceDatagram(f - 1, DgPerFrame)

\* a client that joined inside a frame has got a buffer, with no loss
C10_Witness ==
    /\ ret.kind = "Ok"
    /\ lost = {}
    /\ \E f \in 1..NFrames, s \in 2..DgPerFrame :
          Dgs[1].out.data = DeviceDatagram(f, s)

---------------------------------------------------------------------------
(* Specification SpecE2E: take_snapshot up to make_image (lines 47-48) on  *)
(* a scripted stream: three datagrams of a 12-byte header and 180 payload  *)
(* bytes, the third with the end-of-frame bit, alone or behind one leading *)
(* end-marker datagram. Every datagram is delivered; when the script is    *)
(* over recv_from times out.                                                *)

ScenarioDgLen == HEADER_LEN + 180
ScenarioFills == {0, 31, 241}

\* a datagram whose payload bytes all are `fill`
ScenarioDg(fill, eof) ==
    [i \in 1..ScenarioDgLen |->
        IF i = LINE_NUM_POS + 2 THEN 128 * eof
        ELSE IF i <= HEADER_LEN THEN 0 ELSE fill]

InitE2E ==
    /\ CaptureInit
    /\ \E lead \in {<<>>} \cup {<<ScenarioDg(f0, 1)>> : f0 \in ScenarioFills} :
       \E f1 \in ScenarioFills, f2 \in ScenarioFills, f3 \in ScenarioFills :
          stream = lead \o <<ScenarioDg(f1, 0), ScenarioDg(f2, 0), ScenarioDg(f3, 1)>>
    /\ lost = {}
    /\ img = NoImg
    /\ out = NoOut
    /\ calls = 1
    /\ RestInit

\* the script is over: recv_from times out
Silence ==
    /\ stream = <<>>
    /\ Cardinality({i \in 1..Len(log) : IsTimeout(log[i])}) < MaxQuiet
    /\ \E e \in TimeoutKinds : RecvStep(ErrorOf(e))
    /\ UNCHANGED <<stream, lost, img, out, calls, rest>>

\* let img = make_image(&frame) (line 48), after capture_frame returned Ok
Decode ==
    /\ ret.kind = "Ok"
    /\ img = NoImg
    /\ img' = make_image(ret.frame)
    /\ UNCHANGED <<pc, frame, buf, ret, log, stream, lost, out, calls, rest>>

NextE2E == Deliver \/ Silence \/ Decode

SpecE2E == InitE2E /\ [][NextE2E]_vars

---------------------------------------------------------------------------
(* The end-to-end scenario, checked under SpecE2E *)

\* three datagrams of header and 180 payload bytes, only the third with the bit
ScenarioThree(ds) ==
    /\ Len(ds) = 3
    /\ \A i \in 1..3 : Len(ds[i]) = 12 + 180 /\ (WireEof(ds[i]) <=> i = 3)

\* C7 as stated: when exactly the three datagrams have been fed, the capture
\* has returned a buffer of 540 bytes, which decodes to a raster of width
\* 384 and height 2.
C7_ThreeDatagramsGiveFrame ==
    (stream = <<>> /\ ScenarioThree(DataOf(Dgs))) =>
       /\ ret.kind = "Ok"
       /\ Len(ret.frame) = 540
       /\ make_image(ret.frame).width = 384
       /\ make_image(ret.frame).height = 2

\* C7 as amended: when an end-marker datagram and then the three datagrams
\* have been fed, the capture has returned a buffer of 540 bytes, the three
\* payloads in order, which decodes to a raster of width 384 and height 2.
\* Fed the three datagrams alone, the seek loop takes all three and the
\* capture returns no buffer.
C7_LeadThenThreeGiveFrame ==
    LET ds == DataOf(Dgs) IN
    /\ (stream = <<>> /\ Len(ds) = 4 /\ WireFull(ds[1]) /\ WireEof(ds[1])
          /\ ScenarioThree(Tail(ds))) =>
          /\ ret.kind = "Ok"
          /\ Len(ret.frame) = 540
          /\ ret.frame = WirePayload(ds[2]) \o WirePayload(ds[3]) \o WirePayload(ds[4])
          /\ img # NoImg => (img.width = 384 /\ img.height = 2 /\ ~img.panic)
    /\ (stream = <<>> /\ ScenarioThree(ds)) =>
          /\ ret.kind # "Ok"
          /\ SeekDgs = Dgs
          /\ img = NoImg

\* the buffer of the lead-then-three stream has been decoded
C7_Witness ==
    /\ Len(Dgs) = 4
    /\ ret.kind = "Ok"
    /\ Len(ret.frame) = 540
    /\ img # NoImg
    /\ img.height = 2
    /\ Len(img.pixels) = 768

---------------------------------------------------------------------------
(* Specification SpecCalls: capture_frame called again and again on one    *)
(* socket, as the loop of the live feed does (examples/egui.rs:55-66),     *)
(* with recv_from ending in any way.                                        *)

\* a loop that keeps the assembler state of a completed call
NewCallResume ==
    /\ ~Running(pc)
    /\ calls < MaxCalls
    /\ pc' = IF pc = "complete" THEN "accumulating" ELSE "seeking"
    /\ frame' = <<>>
    /\ buf' = buf
    /\ ret' = NoRet
    /\ log' = <<>>
    /\ calls' = calls + 1
    /\ UNCHANGED <<stream, lost, img, out, rest>>

\* a loop whose receive buffer outlives the call
NewCallKeepBuf ==
    /\ ~Running(pc)
    /\ calls < MaxCalls
    /\ pc' = "seeking"
    /\ frame' = <<>>
    /\ buf' = buf
    /\ ret' = NoRet
    /\ log' = <<>>
    /\ calls' = calls + 1
    /\ UNCHANGED <<stream, lost, img, out, rest>>

\* capture_frame(udp_socket.try_clone().unwrap()): the call before has
\* returned and the next one begins, with its own frame and buf, on the
\* same socket
NewCall ==
    /\ ~Running(pc)
    /\ calls < MaxCalls
    /\ pc' = "seeking"
    /\ frame' = <<>>
    /\ buf' = <<>>
    /\ ret' = NoRet
    /\ log' = <<>>
    /\ calls' = calls + 1
    /\ UNCHANGED <<stream, lost, img, out, rest>>

NextCalls == Receive \/ NewCall

SpecCalls == Init /\ [][NextCalls]_vars

\* the passes of one call: the calls of the seek loop come before the calls
\* of the accumulate loop, a call that has left the seek loop alive has
\* discarded a datagram with the end-of-frame bit as the last datagram of
\* that loop, and a returned frame has been through both loops
PassesInOrder ==
    /\ \A i \in 1..Len(log), j \in 1..Len(log) :
          (i < j /\ log[i].st = "accumulating") => log[j].st = "accumulating"
    /\ log = <<>> => (pc = "seeking" /\ frame = <<>> /\ buf = <<>> /\ ret = NoRet)
    /\ (pc \in {"accumulating", "complete"} \/ frame # <<>> \/ ret.kind = "Ok") =>
          /\ SeekDgs # <<>>
          /\ WireEof(SeekDgs[Len(SeekDgs)].out.data)
          /\ \A i \in 1..(Len(SeekDgs) - 1) : ~WireEof(SeekDgs[i].out.data)
    /\ ret.kind = "Ok" => AccumDgs # <<>>
    /\ pc = "seeking" => (frame = <<>> /\ AccumDgs = <<>>)

\* the steps of the assembler: seeking is left for accumulating or by an
\* error, accumulating is left by the end of the frame or by an error and
\* never for seeking, and a call that has returned is followed by nothing
\* but a new call, which starts in seeking with nothing of the call before
PassStep ==
    /\ pc = "seeking" => pc' \in {"seeking", "accumulating", "failed"}
    /\ pc = "accumulating" => pc' \in {"accumulating", "complete", "failed"}
    /\ ~Running(pc) =>
          \/ pc' = pc /\ calls' = calls
          \/ /\ pc' = "seeking"
             /\ calls' = calls + 1
             /\ frame' = <<>> /\ buf' = <<>> /\ ret' = NoRet /\ log' = <<>>
    /\ Running(pc) => calls' = calls

\* C11: every call of capture_frame runs the seek loop once and then the
\* accumulate loop once and never goes back from accumulating to seeking;
\* nothing is carried from one call to the next, so every call starts in
\* the seek loop and discards a datagram with the end-of-frame bit before
\* it captures anything.
C11_OneSeekThenOneAccumulate ==
    /\ []PassesInOrder
    /\ [][PassStep]_vars

\* a second call on the socket has returned a frame
C11_Witness ==
    /\ calls = 2
    /\ ret.kind = "Ok"
    /\ Len(ret.frame) > 0
    /\ Len(SeekDgs) >= 2

---------------------------------------------------------------------------
(* Seeking without a deadline, checked under Spec *)

\* a recv_from call that gave a timeout or a datagram without the
\* end-of-frame bit
NoMarker(e) == IsTimeout(e) \/ (IsDg(e) /\ ~WireEof(e.out.data))

\* C12: seeking has no deadline. As long as recv_from has given nothing but
\* timeouts, reported as TimedOut or as WouldBlock, and datagrams without
\* the end-of-frame bit, capture_frame is in the seek loop and has returned
\* neither a frame nor an error; a first datagram without the bit is
\* discarded and seeking goes on.
C12_SeekingHasNoDeadline ==
    (\A i \in 1..Len(log) : NoMarker(log[i])) =>
       /\ pc = "seeking"
       /\ ret = NoRet
       /\ frame = <<>>

---------------------------------------------------------------------------
(* Specification SpecLive: capture_frame on a socket on which recv_from    *)
(* never fails for good and datagrams of at least header length with the   *)
(* end-of-frame bit keep arriving; between them recv_from may time out or  *)
(* give any other datagram.                                                 *)

\* the outcomes of recv_from that are no fatal error
LiveOutcomes(k) ==
    {o \in Outcomes(k) : o.kind = "Datagram" \/ o.err \in TimeoutKinds}

\* recv_from gives a datagram of header and payload with the bit set
ReceiveEof ==
    /\ Running(pc)
    /\ RecvStep(DatagramOf(Dg(Len(log) + 1, HEADER_LEN + DevPayload, 1)))
    /\ UNCHANGED <<stream, lost, img, out, calls, rest>>

\* recv_from gives anything else that is no fatal error
ReceiveBetween ==
    /\ Len(log) < MaxRecv
    /\ \E o \in LiveOutcomes(Len(log) + 1) : RecvStep(o)
    /\ UNCHANGED <<stream, lost, img, out, calls, rest>>

NextLive == ReceiveEof \/ ReceiveBetween

\* the end-marker datagrams keep arriving: a capture that runs receives one
SpecLive == Init /\ [][NextLive]_vars /\ WF_vars(ReceiveEof)

\* C13: when recv_from never returns a fatal error and datagrams of at
\* least header length with the end-of-frame bit keep arriving, with any
\* timeouts and other datagrams between them, capture_frame eventually
\* returns a buffer.
C13_EventuallyComplete ==
    <>(pc = "complete" /\ ret.kind = "Ok")

---------------------------------------------------------------------------
(* Specification SpecMarker: the end-of-frame test on datagrams drawn from *)
(* a set of headers: capture_frame receives two datagrams whose marker     *)
(* byte, the byte before it and the rest of the bytes take values with bit *)
(* 7 set and clear independently.                                           *)

MarkerBytes == {0, 127, 128, 255}
LowBytes == {0, 255}
OtherBytes == {0, 128, 255}
MarkerLens == {8, HEADER_LEN, HEADER_LEN + DevPayload}

\* a datagram with byte 5 = m, byte 4 = lo and every other byte = h
MarkerDg(m, lo, h, len) ==
    [i \in 1..len |-> IF i = LINE_NUM_POS + 2 THEN m
                      ELSE IF i = LINE_NUM_POS + 1 THEN lo ELSE h]

MarkerDgs ==
    {MarkerDg(m, lo, h, len) :
        m \in MarkerBytes, lo \in LowBytes, h \in OtherBytes, len \in MarkerLens}

InitMarker ==
    /\ CaptureInit
    /\ \E d1 \in MarkerDgs, d2 \in MarkerDgs : stream = <<d1, d2>>
    /\ lost = {}
    /\ img = NoImg
    /\ out = NoOut
    /\ calls = 1
    /\ RestInit

NextMarker == Deliver

SpecMarker == InitMarker /\ [][NextMarker]_vars

\* the loop of capture_frame runs the test on the datagram just received:
\* always in the seek loop, and in the accumulate loop on a datagram of at
\* least header length
TestRuns(p, d) == p = "seeking" \/ (p = "accumulating" /\ WireFull(d))

\* d and e have the same length and the same bytes [4..6)
SameMarkerField(d, e) ==
    /\ Len(d) = Len(e)
    /\ d[LINE_NUM_POS + 1] = e[LINE_NUM_POS + 1]
    /\ d[LINE_NUM_POS + 2] = e[LINE_NUM_POS + 2]

\* C14: the end-of-frame test of a datagram is true exactly when bit 15 of
\* the little-endian 16-bit value at bytes [4..6) is set, which is bit 7 of
\* byte 5: the test run on the buffer that holds the datagram gives that
\* bit, the loop leaves its state exactly when the datagram carries it, and
\* a datagram that differs only in the header bytes [0..4) and [6..12) and
\* in the payload gives the same result.
C14_TestIsBit15OfMarkerField ==
    [][(Called /\ IsDg(Call)) =>
          LET d == Call.out.data
              arr == ArrayOf(buf')
          IN  /\ bit15_is_set(arr) <=> arr[LINE_NUM_POS + 2] >= 128
              /\ bit15_is_set(arr) <=>
                    (arr[LINE_NUM_POS + 1] + 256 * arr[LINE_NUM_POS + 2]) \div 2^15 = 1
              /\ TestRuns(pc, d) =>
                    /\ bit15_is_set(arr) <=> d[LINE_NUM_POS + 2] >= 128
                    /\ pc' # pc <=> d[LINE_NUM_POS + 2] >= 128
              /\ \A e \in MarkerDgs :
                    SameMarkerField(d, e) =>
                       (bit15_is_set(recv_from(BufArray, e).into) <=> bit15_is_set(arr))]_vars

\* the test has been true on a datagram whose other bytes all are zero and
\* then false on one whose other bytes all have bit 7 set
C14_Witness ==
    /\ Len(Dgs) = 2
    /\ pc = "accumulating"
    /\ Dgs[1].out.data = MarkerDg(128, 0, 0, HEADER_LEN)
    /\ Dgs[2].out.data = MarkerDg(127, 255, 255, HEADER_LEN + DevPayload)

---------------------------------------------------------------------------
(* Specification SpecImage: take_snapshot from capture_frame to            *)
(* scale_image (lines 47-49) on frames of chosen length and content: the   *)
(* socket gives an end-marker datagram and then one datagram that carries  *)
(* the frame and ends it; the frame is decoded and the raster scaled by    *)
(* any of the factors below.                                                *)

\* bytes of a frame beyond its whole rows
RowRests == {0, 1, BYTES_PER_ROW - 1}
ImageLens == {r * BYTES_PER_ROW + d : r \in 0..MaxRows, d \in RowRests}

\* contents <<a, c>>: byte i of the frame is (a * i + c) mod 256, so the
\* frame is all 0x1F, or runs through all byte values, or jumps through them
ImagePatterns == {<<0, 31>>, <<1, 31>>, <<7, 241>>}
PatternBytes(p, n) == [i \in 1..n |-> (p[1] * (i - 1) + p[2]) % 256]

\* a bare header with the end-of-frame bit
LeadDg == [i \in 1..HEADER_LEN |-> IF i = LINE_NUM_POS + 2 THEN 128 ELSE 0]

\* the scale argument of take_snapshot: none, 0, 1, factors above 1, and
\* a factor whose product with the width does not fit 32 bits
Scales == {None, Some(0), Some(1), Some(2), Some(3), Some(2^25)}

InitImage ==
    /\ CaptureInit
    /\ \E n \in ImageLens, p \in ImagePatterns :
          stream = <<LeadDg, LeadDg \o PatternBytes(p, n)>>
    /\ lost = {}
    /\ img = NoImg
    /\ out = NoOut
    /\ calls = 1
    /\ RestInit

\* let img = scale_image(img, scale)? (line 49)
Scale ==
    /\ img # NoImg
    /\ ~img.panic
    /\ out = NoOut
    /\ \E s \in Scales : \E r \in scale_image(img, s) :
          out' = [kind |-> r.kind, scale |-> s, img |-> r.img]
    /\ UNCHANGED <<pc, frame, buf, ret, log, stream, lost, img, calls, rest>>

NextImage == Deliver \/ Decode \/ Scale

SpecImage == InitImage /\ [][NextImage]_vars

---------------------------------------------------------------------------
(* Claims about make_image, checked under SpecImage *)

\* pixel (x, y) of a raster
PixelAt(im, x, y) == im.pixels[y * im.width + x + 1]

\* C15: for every raw buffer B, make_image(B) has width 384 and height
\* floor(len(B) / 192): a trailing partial row of 1 to 191 bytes is dropped
\* and never rounded up to a row, and a buffer shorter than 192 bytes, the
\* empty one too, gives height 0.
C15_HeightIsFloorOfRows ==
    img # NoImg =>
       LET n == Len(ret.frame) IN
       /\ img.width = 384
       /\ img.height = n \div 192
       /\ img.height * 192 <= n
       /\ n < (img.height + 1) * 192
       /\ n < 192 => img.height = 0
       /\ Len(img.pixels) = 384 * img.height

\* a buffer of two rows and 191 bytes has been decoded to two rows
C15_Witness ==
    /\ img # NoImg
    /\ Len(ret.frame) = 2 * 192 + 191
    /\ img.height = 2
    /\ Len(img.pixels) = 768

\* C16: for every row y < rows and column-byte x < 192, with b the byte
\* B[y*192 + x], make_image writes palette[b & 0xF] to pixel (2x, y) and
\* palette[b >> 4] to pixel (2x+1, y): the low nibble is the left pixel,
\* and byte 0x1F gives the pair (palette[0xF], palette[0x1]).
C16_LowNibbleIsLeftPixel ==
    img # NoImg =>
       \A y \in 0..(img.height - 1), x \in 0..191 :
          LET b == ret.frame[y * 192 + x + 1] IN
          /\ PixelAt(img, 2 * x, y) = COLORS[(b % 16) + 1]
          /\ PixelAt(img, 2 * x + 1, y) = COLORS[(b \div 16) + 1]
          /\ b = 31 => /\ PixelAt(img, 2 * x, y) = COLORS[15 + 1]
                       /\ PixelAt(img, 2 * x + 1, y) = COLORS[1 + 1]

\* a buffer that starts with 0x1F and goes on with other bytes has been
\* decoded to two rows
C16_Witness ==
    /\ img # NoImg
    /\ img.height = 2
    /\ ret.frame[1] = 31
    /\ ret.frame[2] = 32
    /\ PixelAt(img, 0, 0) = <<178, 178, 178>>
    /\ PixelAt(img, 1, 0) = <<239, 239, 239>>
    /\ PixelAt(img, 2, 0) = <<0, 0, 0>>
    /\ PixelAt(img, 3, 0) = <<141, 47, 52>>

\* C17: make_image has no failure mode: for every byte value and every
\* buffer length both palette indices are in [0,15] and inside the 16-entry
\* COLORS table, every read of the buffer is in bounds and every pixel
\* written is inside the raster of 384 x rows.
C17_DecodeNeverFails ==
    /\ Len(COLORS) = 16
    /\ \A b \in 0..255 :
          /\ lo_nibble(b) \in 0..15 /\ in_table(lo_nibble(b))
          /\ hi_nibble(b) \in 0..15 /\ in_table(hi_nibble(b))
    /\ ret.kind = "Ok" => rows_of(ret.frame) * BYTES_PER_ROW <= Len(ret.frame)
    /\ img # NoImg =>
          /\ ~img.panic
          /\ Len(img.pixels) = IMAGE_WIDTH * rows_of(ret.frame)
          /\ \A k \in 1..Len(img.pixels) : img.pixels[k] \in Range(COLORS)

\* a buffer that holds every byte value has been decoded
C17_Witness ==
    /\ img # NoImg
    /\ Range(ret.frame) = 0..255
    /\ img.height = 2
    /\ ~img.panic

---------------------------------------------------------------------------
(* Claims about scale_image, checked under SpecImage *)

\* scale_image has been called
Scaled == out # NoOut

\* C18: scale_image with factor 1 or with no factor returns the input
\* raster unchanged: same width, same height and the same pixel at every
\* position.
C18_FactorOneIsIdentity ==
    (Scaled /\ out.scale \in {None, Some(1)}) =>
       /\ out.kind = "Ok"
       /\ out.img.width = img.width
       /\ out.img.height = img.height
       /\ \A y \in 0..(img.height - 1), x \in 0..(img.width - 1) :
             PixelAt(out.img, x, y) = PixelAt(img, x, y)
       /\ out.img = img

\* a raster of two rows has been scaled with factor 1
C18_Witness ==
    /\ Scaled
    /\ out.scale = Some(1)
    /\ out.kind = "Ok"
    /\ out.img.height = 2
    /\ Len(out.img.pixels) = 768

\* C19: for a factor f > 1 scale_image returns a raster of size
\* (width*f, height*f) in which output pixel (X, Y) equals source pixel
\* (X div f, Y div f), so every f x f block equals its single source pixel.
C19_FactorReplicatesBlocks ==
    (Scaled /\ out.scale # None /\ out.scale[1] > 1) =>
       LET f == out.scale[1] IN
       /\ out.kind = "Ok"
       /\ out.img.width % f = 0 /\ out.img.width \div f = img.width
       /\ out.img.height % f = 0 /\ out.img.height \div f = img.height
       /\ \A Y \in 0..(out.img.height - 1), X \in 0..(out.img.width - 1) :
             PixelAt(out.img, X, Y) = PixelAt(img, X \div f, Y \div f)

\* C20: a scale factor of 0 is rejected at the boundary: take_snapshot
\* called with scale Some(0) returns an error and scale_image produces no
\* raster, so that no raster of 0 x 0 is handed to the sink.
C20_ZeroFactorRejected ==
    (Scaled /\ out.scale = Some(0)) =>
       /\ out.kind = "Err"
       /\ out.img = NoImg

---------------------------------------------------------------------------
(* Specification SpecOpen: take_snapshot from its first line: get_socket   *)
(* on any of the URLs below, with any of its calls failing, and then, on a *)
(* socket that gives at most an end-marker datagram and one frame,         *)
(* capture_frame, make_image, scale_image and the sink.                    *)

\* URLs without host, with a multicast group, with an address that is no
\* group, with a last number above 255 and with a name for the host; without
\* port, with the default port and with another port
OpenUrls ==
    {[host |-> h, port |-> p] :
        h \in {None, Some(MulticastHost), Some(UnicastHost),
               Some(Host("239.0.1.256", <<239, 0, 1, 256>>)),
               Some(Host("c64.local", <<>>))},
        p \in {None, Some(DEFAULT_PORT), Some(6464)}}

\* frames of no row and of one row
OpenLens == {0, BYTES_PER_ROW}

\* what the network gives: nothing, an end marker and nothing more, or an
\* end marker and a frame
OpenStreams ==
    {<<>>, <<LeadDg>>}
    \cup {<<LeadDg, LeadDg \o PatternBytes(<<1, 31>>, n)>> : n \in OpenLens}

InitOpen ==
    /\ pc = "idle"
    /\ frame = <<>>
    /\ buf = <<>>
    /\ ret = NoRet
    /\ log = <<>>
    /\ stream \in OpenStreams
    /\ lost = {}
    /\ img = NoImg
    /\ out = NoOut
    /\ calls = 0
    /\ sock = NoSock
    /\ snap = NoSnap
    /\ slot = <<>>
    /\ mutex = "free"
    /\ feed = "capturing"
    /\ ui = UiIdle
    /\ prev = NoRet
    /\ other = NoOther
    /\ aux = NoAux
    /\ task = NoTask
    /\ wire = <<>>

\* let udp_socket = get_socket(url)? (line 46): on an error take_snapshot
\* returns it
Open ==
    /\ sock = NoSock
    /\ \E url \in OpenUrls, fail \in SocketFailures :
          /\ sock' = get_socket(url, fail)
          /\ snap' = IF sock'.kind = "Err" THEN [kind |-> "Err", sink |-> NoImg]
                     ELSE snap
    /\ UNCHANGED <<pc, frame, buf, ret, log, stream, lost, img, out, calls,
                   slot, mutex, feed, ui, prev, other, aux, task, wire>>

\* capture_frame(udp_socket) is called (line 47)
StartCapture ==
    /\ sock.kind = "Ok"
    /\ pc = "idle"
    /\ pc' = "seeking"
    /\ calls' = calls + 1
    /\ UNCHANGED <<frame, buf, ret, log, stream, lost, img, out, rest>>

\* capture_frame(udp_socket)? returned Err (line 47): take_snapshot returns it
Propagate ==
    /\ pc = "failed"
    /\ snap = NoSnap
    /\ snap' = [kind |-> "Err", sink |-> NoImg]
    /\ UNCHANGED <<pc, frame, buf, ret, log, stream, lost, img, out, calls,
                   sock, slot, mutex, feed, ui, prev, other, aux, task, wire>>

\* img.save(path) or viuer::print (lines 51-62): the sink gets the raster
\* and take_snapshot returns what the sink made of it
Sink ==
    /\ out.kind = "Ok"
    /\ snap = NoSnap
    /\ \E k \in {"Ok", "Err"} : snap' = [kind |-> k, sink |-> out.img]
    /\ UNCHANGED <<pc, frame, buf, ret, log, stream, lost, img, out, calls,
                   sock, slot, mutex, feed, ui, prev, other, aux, task, wire>>

NextOpen == Open \/ StartCapture \/ Deliver \/ Silence \/ Propagate \/ Decode
            \/ Scale \/ Sink

SpecOpen == InitOpen /\ [][NextOpen]_vars

\* the URL names no multicast group get_socket can join
BadAddress(url) ==
    \/ url.host = None
    \/ ~is_ipv4(url.host[1])
    \/ ~is_multicast(url.host[1])

\* C21: an address or configuration error (a URL without host, a host that
\* is no IPv4 address, a failure of bind or of the multicast join) makes
\* get_socket return an error before any receive is attempted, and
\* take_snapshot then calls neither capture_frame nor the sink; a URL
\* without port uses port 11000.
C21_OpenErrorStopsSnapshot ==
    /\ sock.kind = "Err" =>
          /\ pc = "idle" /\ calls = 0
          /\ log = <<>> /\ ret = NoRet
          /\ img = NoImg /\ out = NoOut
          /\ snap = [kind |-> "Err", sink |-> NoImg]
    /\ (sock.kind # "None" /\ BadAddress(sock.url)) => sock.kind = "Err"
    /\ (sock.kind = "Err" /\ ~BadAddress(sock.url)) =>
          sock.at \in {"socket", "reuse_address", "bind", "join", "read_timeout"}
    /\ sock.kind = "Ok" =>
          /\ sock.url.port = None => sock.port = 11000
          /\ sock.url.port # None => sock.port = sock.url.port[1]
    /\ (pc # "idle" \/ log # <<>> \/ snap.sink # NoImg) => sock.kind = "Ok"

\* the join of a group that is no multicast address has failed and
\* take_snapshot has returned the error
C21_Witness ==
    /\ sock.kind = "Err"
    /\ sock.at = "join"
    /\ sock.url.host = Some(UnicastHost)
    /\ sock.url.port = None
    /\ snap.kind = "Err"
    /\ pc = "idle"

---------------------------------------------------------------------------
(* auxiliary.rs: check_address_overflow and extract_load_address           *)

U16_MAX == 65535

\* u16::checked_add
checked_add_u16(a, b) == IF a + b > U16_MAX THEN None ELSE Some(a + b)

\* a check that adds the length itself, not the offset of the last byte
check_address_overflow_whole(address, length) ==
    IF length > 0 /\ checked_add_u16(address, length) = None
    THEN [kind |-> "Err"]
    ELSE [kind |-> "Ok"]

\* pub fn check_address_overflow(address: u16, length: u16) -> Result<()>
check_address_overflow(address, length) ==
    IF length > 0 /\ checked_add_u16(address, length - 1) = None
    THEN [kind |-> "Err"]
    ELSE [kind |-> "Ok"]

\* u16::from_be_bytes
from_be_bytes(b) == b[1] * 256 + b[2]

\* u16::from_le_bytes
from_le_bytes(b) == b[1] + b[2] * 256

\* data.get(..2): the first two bytes, when there are two
get_2(data) == IF Len(data) < 2 THEN None ELSE Some(SubSeq(data, 1, 2))

\* pub fn extract_load_address(data: &[u8]) -> Result<u16>
extract_load_address(data) ==
    IF get_2(data) = None THEN [kind |-> "Err"]
    ELSE [kind |-> "Ok", value |-> from_le_bytes(get_2(data)[1])]

---------------------------------------------------------------------------
(* Specification SpecAux: the two functions of auxiliary.rs, called on the *)
(* addresses, lengths and files below.                                     *)

\* 16-bit values at both ends and in the middle of the range
Words == {0, 1, 2, 255, 256, 32767, 32768, 65534, 65535}

\* files of at most MaxFile bytes
MaxFile == 3
Files == UNION {[1..n -> {0, 1, 8, 255}] : n \in 0..MaxFile}

InitAux ==
    /\ pc = "idle"
    /\ frame = <<>>
    /\ buf = <<>>
    /\ ret = NoRet
    /\ log = <<>>
    /\ stream = <<>>
    /\ lost = {}
    /\ img = NoImg
    /\ out = NoOut
    /\ calls = 0
    /\ sock = NoSock
    /\ snap = NoSnap
    /\ slot = <<>>
    /\ mutex = "free"
    /\ feed = "capturing"
    /\ ui = UiIdle
    /\ prev = NoRet
    /\ other = NoOther
    /\ aux = NoAux
    /\ task = NoTask
    /\ wire = <<>>

\* a call of check_address_overflow
Check ==
    /\ \E address \in Words, length \in Words :
          aux' = [fn |-> "check_address_overflow", arg |-> <<address, length>>,
                  res |-> check_address_overflow(address, length)]
    /\ UNCHANGED <<pc, frame, buf, ret, log, stream, lost, img, out, calls,
                   sock, snap, slot, mutex, feed, ui, prev, other,
                   task, wire>>

\* a call of extract_load_address
Extract ==
    /\ \E data \in Files :
          aux' = [fn |-> "extract_load_address", arg |-> data,
                  res |-> extract_load_address(data)]
    /\ UNCHANGED <<pc, frame, buf, ret, log, stream, lost, img, out, calls,
                   sock, snap, slot, mutex, feed, ui, prev, other,
                   task, wire>>

NextAux == Check \/ Extract

SpecAux == InitAux /\ [][NextAux]_vars

\* C23: check_address_overflow(address, length) returns Ok exactly when
\* length = 0 or address + length - 1 <= 0xFFFF, and an error otherwise;
\* (0xFFFF, 1) is Ok and (0xFFFF, 2) is an error.
C23_OverflowCheckIsExact ==
    aux.fn = "check_address_overflow" =>
        LET address == aux.arg[1]
            length == aux.arg[2]
        IN  /\ aux.res.kind \in {"Ok", "Err"}
            /\ aux.res.kind = "Ok" <=> (length = 0 \/ address + length - 1 <= 65535)
            /\ aux.arg = <<65535, 1>> => aux.res.kind = "Ok"
            /\ aux.arg = <<65535, 2>> => aux.res.kind = "Err"

\* the last byte of the address space alone passes the check
C23_Witness ==
    /\ aux.fn = "check_address_overflow"
    /\ aux.arg = <<65535, 1>>
    /\ aux.res.kind = "Ok"

\* C24: extract_load_address(data) returns an error exactly when data has
\* fewer than 2 bytes; otherwise it returns data[0] + 256 * data[1] and
\* ignores all later bytes.
C24_LoadAddressIsLittleEndian ==
    aux.fn = "extract_load_address" =>
        LET data == aux.arg
        IN  /\ aux.res.kind = "Err" <=> Len(data) < 2
            /\ Len(data) >= 2 =>
                  /\ aux.res.kind = "Ok"
                  /\ aux.res.value = data[1] + 256 * data[2]
                  /\ aux.res = extract_load_address(SubSeq(data, 1, 2))

\* the load address $0801 is read from a file with a third byte
C24_Witness ==
    /\ aux.fn = "extract_load_address"
    /\ aux.arg = <<1, 8, 0>>
    /\ aux.res = [kind |-> "Ok", value |-> 2049]

---------------------------------------------------------------------------
(* Further claims about capture_frame, checked under Spec and SpecCalls    *)

\* the raw frame buffer after a step: the vector frame, or, when the step
\* was the last one, the vector the function returned
FrameAfter == IF pc' = "complete" THEN ret'.frame ELSE frame'

\* C25: during the accumulate loop the raw frame buffer is append-only:
\* after every step its earlier content is a prefix of its new content, its
\* length never decreases, and it grows by exactly len - 12 bytes on a
\* datagram of length len >= 12 and by 0 on a timeout or a shorter datagram.
C25_FrameBufferAppendOnly ==
    [][(Called /\ pc = "accumulating" /\ (IsDg(Call) \/ IsTimeout(Call)))
          => /\ IsPrefix(frame, FrameAfter)
             /\ Len(FrameAfter) >= Len(frame)
             /\ (IsDg(Call) /\ Len(Call.out.data) >= 12) =>
                   Len(FrameAfter) = Len(frame) + Len(Call.out.data) - 12
             /\ (IsTimeout(Call) \/ Len(Call.out.data) < 12) =>
                   /\ Len(FrameAfter) = Len(frame)
                   /\ pc' = "accumulating"]_vars

\* C27: while capture_frame is in the seek loop, the end-of-frame bit held
\* in the reused 1024-byte receive buffer is clear before every receive, so
\* a datagram of fewer than 6 bytes, which does not overwrite byte 5, never
\* ends seeking because of bytes left by an earlier datagram.
C27_SeekBufferBitClear ==
    /\ [](pc = "seeking" => ~bit15_is_set(BufArray))
    /\ [][(Called /\ pc = "seeking" /\ IsDg(Call) /\ Len(Call.out.data) < 6)
             => pc' = "seeking"]_vars

\* in a second call on the socket, a datagram of 3 bytes has arrived in the
\* seek loop behind a longer one, and the call still seeks
C27_Witness ==
    /\ calls = 2
    /\ pc = "seeking"
    /\ Len(log) = 2
    /\ IsDg(log[1]) /\ Len(log[1].out.data) >= HEADER_LEN
    /\ IsDg(log[2]) /\ Len(log[2].out.data) < 6
    /\ Len(buf) >= HEADER_LEN

---------------------------------------------------------------------------
(* A further claim about make_image, checked under SpecImage               *)

\* C30: in make_image the running index i equals y*192 + x at every read of
\* the frame and is always below the length of the frame, so the guard
\* `i >= frame.len()` never fires, and each of the 384 * rows pixels of the
\* raster is written exactly once.
C30_IndexAlignedEachPixelOnce ==
    img # NoImg =>
        LET run == make_image_run(ret.frame)
            rows == Len(ret.frame) \div 192
        IN  /\ run.im = img
            /\ run.aligned
            /\ ~run.fired /\ ~run.broke
            /\ run.i = 192 * rows /\ run.i <= Len(ret.frame)
            /\ Len(run.hits) = 384 * rows
            /\ \A k \in 1..Len(run.hits) : run.hits[k] = 1

\* a frame of two rows and 191 bytes more has been decoded
C30_Witness ==
    /\ img # NoImg
    /\ Len(ret.frame) = 2 * 192 + 191
    /\ img.height = 2
    /\ make_image_run(ret.frame).i = 384
    /\ make_image_run(ret.frame).hits[768] = 1

---------------------------------------------------------------------------
(* Specification SpecFeed: the live feed of examples/egui.rs. The capture  *)
(* thread calls capture_frame again and again on one socket, decodes every *)
(* frame it gets and stores the raster in the slot latest_frame under its  *)
(* mutex; the presentation thread locks the slot, reads it and shows what  *)
(* it read. The device sends FeedFrames frames of one row each, without    *)
(* loss; the thread joins at any datagram, and recv_from may time out.     *)

FeedFrames == 4
FeedDgs == 2
MaxFeedCalls == 3
FeedPayload == BYTES_PER_ROW \div FeedDgs

\* The s-th datagram of frame f: a header, with the end-of-frame bit in the
\* last datagram of the frame, and a payload whose bytes all are f
FeedDatagram(f, s) ==
    [i \in 1..(HEADER_LEN + FeedPayload) |->
        IF i = LINE_NUM_POS + 2 THEN (IF s = FeedDgs THEN 128 ELSE 0)
        ELSE IF i <= HEADER_LEN THEN 0
        ELSE f]

FeedStream ==
    [g \in 1..(FeedFrames * FeedDgs) |->
        FeedDatagram(((g - 1) \div FeedDgs) + 1, ((g - 1) % FeedDgs) + 1)]

\* the payload of the whole frame f, as the device sent it
FeedFrame(f) == [i \in 1..(FeedDgs * FeedPayload) |-> f]

InitFeed ==
    /\ CaptureInit
    /\ \E j \in 1..Len(FeedStream) : stream = SubSeq(FeedStream, j, Len(FeedStream))
    /\ lost = {}
    /\ img = NoImg
    /\ out = NoOut
    /\ calls = 1
    /\ RestInit

\* let img = make_image(&data) (line 58), after capture_frame returned Ok
FeedDecode ==
    /\ feed = "capturing"
    /\ pc = "complete"
    /\ img' = make_image(ret.frame)
    /\ feed' = "decoded"
    /\ UNCHANGED <<pc, frame, buf, ret, log, stream, lost, out, calls,
                   sock, snap, slot, mutex, ui, prev, other, aux, task, wire>>

\* frame_clone.lock().unwrap() (line 59): waits until the mutex is free
FeedLock ==
    /\ feed = "decoded"
    /\ mutex = "free"
    /\ mutex' = "capture"
    /\ feed' = "locked"
    /\ UNCHANGED <<pc, frame, buf, ret, log, stream, lost, img, out, calls,
                   sock, snap, slot, ui, prev, other, aux, task, wire>>

\* a raster of which only the first half of the pixels has been written
HalfWritten(im) ==
    [im EXCEPT !.pixels = SubSeq(im.pixels, 1, Len(im.pixels) \div 2)]

\* *guard = Some(img) (line 59), begun: the old value of the slot is gone
\* and the new one is not whole yet
FeedStoreBegin ==
    /\ feed = "locked"
    /\ slot' = Some(HalfWritten(img))
    /\ feed' = "storing"
    /\ UNCHANGED <<pc, frame, buf, ret, log, stream, lost, img, out, calls,
                   sock, snap, mutex, ui, prev, other, aux, task, wire>>

\* *guard = Some(img) (line 59), done
FeedStoreEnd ==
    /\ feed = "storing"
    /\ slot' = Some(img)
    /\ feed' = "stored"
    /\ UNCHANGED <<pc, frame, buf, ret, log, stream, lost, img, out, calls,
                   sock, snap, mutex, ui, prev, other, aux, task, wire>>

\* the next turn of the loop (line 55): capture_frame is called on a clone
\* of the same socket, with a frame and a buf of its own
NextTurn ==
    /\ calls < MaxFeedCalls
    /\ pc' = "seeking"
    /\ frame' = <<>>
    /\ buf' = <<>>
    /\ prev' = ret
    /\ ret' = NoRet
    /\ log' = <<>>
    /\ img' = NoImg
    /\ calls' = calls + 1
    /\ feed' = "capturing"

\* a loop whose next call goes on where the last one ended
FeedUnlockResume ==
    /\ feed = "stored"
    /\ mutex' = "free"
    /\ calls < MaxFeedCalls
    /\ pc' = "accumulating"
    /\ frame' = <<>>
    /\ buf' = <<>>
    /\ prev' = ret
    /\ ret' = NoRet
    /\ log' = <<>>
    /\ img' = NoImg
    /\ calls' = calls + 1
    /\ feed' = "capturing"
    /\ UNCHANGED <<stream, lost, out, sock, snap, slot, ui, other, aux, task, wire>>

\* the end of the statement of line 59 drops the guard, and the loop turns
FeedUnlock ==
    /\ feed = "stored"
    /\ mutex' = "free"
    /\ NextTurn
    /\ UNCHANGED <<stream, lost, out, sock, snap, slot, ui, other, aux, task, wire>>

\* an error arm that empties the slot
FeedErrorClear ==
    /\ feed = "capturing"
    /\ pc = "failed"
    /\ NextTurn
    /\ slot' = None
    /\ UNCHANGED <<stream, lost, out, sock, snap, mutex, ui, other, aux, task, wire>>

\* Err(e) => { eprintln!(..); thread::sleep(50 ms) } (lines 61-64), and the
\* loop turns
FeedError ==
    /\ feed = "capturing"
    /\ pc = "failed"
    /\ NextTurn
    /\ UNCHANGED <<stream, lost, out, sock, snap, slot, mutex, ui, other, aux,
                   task, wire>>

\* a presentation thread that does not wait for the mutex
UiLockAnyway ==
    /\ ui.pc = "idle"
    /\ mutex' = mutex
    /\ ui' = [ui EXCEPT !.pc = "locked"]
    /\ UNCHANGED <<pc, frame, buf, ret, log, stream, lost, img, out, calls,
                   sock, snap, slot, feed, prev, other, aux, task, wire>>

\* self.latest_frame.lock().unwrap() (line 20): waits until the mutex is free
UiLock ==
    /\ ui.pc = "idle"
    /\ mutex = "free"
    /\ mutex' = "ui"
    /\ ui' = [ui EXCEPT !.pc = "locked"]
    /\ UNCHANGED <<pc, frame, buf, ret, log, stream, lost, img, out, calls,
                   sock, snap, slot, feed, prev, other, aux, task, wire>>

\* if let Some(frame) = ... .as_ref() { .. } (lines 20-30): the slot is read
\* and a raster in it becomes the texture
UiRead ==
    /\ ui.pc = "locked"
    /\ ui' = [pc |-> "read", read |-> slot,
              shown |-> IF slot = None THEN ui.shown ELSE slot]
    /\ UNCHANGED <<pc, frame, buf, ret, log, stream, lost, img, out, calls,
                   sock, snap, slot, mutex, feed, prev, other, aux,
                   task, wire>>

\* the end of the if let drops the guard (line 31)
UiUnlock ==
    /\ ui.pc = "read"
    /\ mutex' = IF mutex = "ui" THEN "free" ELSE mutex
    /\ ui' = [ui EXCEPT !.pc = "idle"]
    /\ UNCHANGED <<pc, frame, buf, ret, log, stream, lost, img, out, calls,
                   sock, snap, slot, feed, prev, other, aux, task, wire>>

NextFeed == Deliver \/ Quiet \/ FeedDecode \/ FeedLock \/ FeedStoreBegin
            \/ FeedStoreEnd \/ FeedUnlock \/ FeedError
            \/ UiLock \/ UiRead \/ UiUnlock

SpecFeed == InitFeed /\ [][NextFeed]_vars

\* a raster with all its pixels
Whole(im) == ~im.panic /\ Len(im.pixels) = im.width * im.height

\* the raster of a frame the device sent
FeedRaster(im) == \E f \in 1..FeedFrames : im = make_image(FeedFrame(f))

\* C22: the live-feed cell is a single slot that is overwritten: under every
\* interleaving of the capture thread and the presentation thread the slot
\* holds at most one raster, a new raster replaces the one before it and
\* nothing is queued, and the presentation thread only ever reads None or
\* one whole decoded raster, never a partly written one.
C22_SlotOverwrittenReadWhole ==
    /\ [](/\ Len(slot) <= 1
          /\ (slot # None /\ mutex # "capture") => Whole(slot[1])
          /\ Len(ui.read) <= 1
          /\ ui.read # None => (Whole(ui.read[1]) /\ FeedRaster(ui.read[1]))
          /\ ui.shown # None => Whole(ui.shown[1]))
    /\ [][(slot' # slot /\ feed' = "stored") => slot' = Some(img)]_vars
    /\ [][(ui'.read # ui.read) => (mutex = "ui" /\ ui'.read = slot)]_vars

\* the presentation thread has read one raster and holds the mutex while
\* the capture thread waits with the next raster, of another frame
C22_Witness ==
    /\ ui.pc = "read"
    /\ ui.read # None
    /\ mutex = "ui"
    /\ feed = "decoded"
    /\ ui.read = slot
    /\ img # slot[1]
    /\ calls = 2

\* the device frame a returned buffer is, or 0 when it is none
FrameNo(b) ==
    IF \E f \in 1..FeedFrames : b = FeedFrame(f)
    THEN CHOOSE f \in 1..FeedFrames : b = FeedFrame(f)
    ELSE 0

\* C28: when capture_frame is called repeatedly on a continuous stream
\* without loss, two consecutive calls never return two consecutive device
\* frames: the frame sent right after a returned frame is consumed whole by
\* the seek pass of the next call, so the loop returns at most every second
\* frame.
C28_EverySecondFrameAtMost ==
    (prev.kind = "Ok" /\ ret.kind = "Ok") =>
        /\ FrameNo(prev.frame) # 0
        /\ FrameNo(ret.frame) # 0
        /\ FrameNo(ret.frame) # FrameNo(prev.frame) + 1
        /\ FrameNo(ret.frame) >= FrameNo(prev.frame) + 2
        /\ \E i \in 1..Len(SeekDgs) :
              WirePayload(SeekDgs[i].out.data)
                 = SubSeq(FeedFrame(FrameNo(prev.frame) + 1), 1, FeedPayload)

\* the first call has returned frame 2 and the second call frame 4
C28_Witness ==
    /\ calls = 2
    /\ prev.kind = "Ok" /\ FrameNo(prev.frame) = 2
    /\ ret.kind = "Ok" /\ FrameNo(ret.frame) = 4
    /\ stream = <<>>

\* C29: in the loop of the live feed a capture error leaves the slot
\* latest_frame unchanged, so that the last good raster stays visible, and
\* the capture thread goes on to call capture_frame again on the same
\* socket; once the slot holds a raster it never returns to None.
C29_ErrorKeepsLastRaster ==
    /\ [][(pc = "failed" /\ pc' # pc)
             => /\ slot' = slot /\ ui' = ui
                /\ pc' = "seeking" /\ calls' = calls + 1
                /\ sock' = sock /\ stream' = stream]_vars
    /\ [][slot # None => slot' # None]_vars
    /\ [](pc = "failed" => (slot = None \/ Whole(slot[1])))

\* a call has failed after a raster was stored, the raster is still in the
\* slot and on the screen, and the next call is running
C29_Witness ==
    /\ calls = 3
    /\ prev.kind = "Err"
    /\ pc = "seeking"
    /\ slot # None
    /\ ui.shown = slot

---------------------------------------------------------------------------
(* Specification SpecPair: two calls of capture_frame that run interleaved,*)
(* each on a receiver of its own; both receivers get the same datagrams.   *)
(* One call runs at a time; the variables pc, frame, buf, ret, log and     *)
(* stream are the locals and the receiver of the call that runs, and the   *)
(* record `other` holds those of the call that waits.                      *)

PairLen == 4

\* lengths and end-of-frame bits of the datagrams: a datagram too short to
\* reach byte 5, payload datagrams with and without the bit, a bare header
\* with the bit
PairStreams ==
    {[k \in 1..PairLen |-> Dg(k, ks[k][1], ks[k][2])] :
        ks \in [1..PairLen -> {<<3, 0>>, <<14, 0>>, <<14, 1>>, <<12, 1>>}]}

\* fn capture_frame(socket: UdpSocket): what one call owns
Locals ==
    [pc |-> pc, frame |-> frame, buf |-> buf, ret |-> ret, log |-> log,
     stream |-> stream]

InitPair ==
    /\ CaptureInit
    /\ stream \in PairStreams
    /\ lost = {}
    /\ img = NoImg
    /\ out = NoOut
    /\ calls = 2
    /\ sock = FeedSocket
    /\ snap = NoSnap
    /\ slot = None
    /\ mutex = "free"
    /\ feed = "capturing"
    /\ ui = UiIdle
    /\ prev = NoRet
    /\ other = [id |-> 2, pc |-> "seeking", frame |-> <<>>, buf |-> <<>>,
                ret |-> NoRet, log |-> <<>>, stream |-> stream]
    /\ aux = NoAux
    /\ task = NoTask
    /\ wire = <<>>

\* two calls that build their frames in one vector
SwitchSharedFrame ==
    /\ other' = [id |-> 3 - other.id, pc |-> pc, frame |-> frame, buf |-> buf,
                 ret |-> ret, log |-> log, stream |-> stream]
    /\ pc' = other.pc
    /\ frame' = frame
    /\ buf' = other.buf
    /\ ret' = other.ret
    /\ log' = other.log
    /\ stream' = other.stream
    /\ UNCHANGED <<lost, img, out, calls, sock, snap, slot, mutex, feed, ui,
                   prev, aux, task, wire>>

\* the scheduler takes the processor from the call that runs and gives it
\* to the call that waits: each call goes on with its own locals
Switch ==
    /\ other' = [id |-> 3 - other.id, pc |-> pc, frame |-> frame, buf |-> buf,
                 ret |-> ret, log |-> log, stream |-> stream]
    /\ pc' = other.pc
    /\ frame' = other.frame
    /\ buf' = other.buf
    /\ ret' = other.ret
    /\ log' = other.log
    /\ stream' = other.stream
    /\ UNCHANGED <<lost, img, out, calls, sock, snap, slot, mutex, feed, ui,
                   prev, aux, task, wire>>

NextPair == Deliver \/ Switch

SpecPair == InitPair /\ [][NextPair]_vars

\* the datagrams a call has received
Received(l) == DataOf(SelectSeq(l, IsDg))

\* What a call that runs alone returns on the datagrams ds, the last of
\* which ended it, read off the wire: the payloads of the full datagrams
\* behind the first datagram with the end-of-frame bit
AloneFrame(ds) ==
    LET e1 == CHOOSE i \in 1..Len(ds) :
                 WireEof(ds[i]) /\ \A j \in 1..(i - 1) : ~WireEof(ds[j])
        rest_ds == SubSeq(ds, e1 + 1, Len(ds))
    IN  Concat([i \in 1..Len(rest_ds) |-> WirePayload(rest_ds[i])])

\* a call has returned what it would return alone
AsAlone(c) ==
    c.pc = "complete" =>
        /\ c.ret.kind = "Ok"
        /\ c.ret.frame = AloneFrame(Received(c.log))

\* C26: concurrent captures do not interfere through shared state: when two
\* capture_frame calls run interleaved, each on its own receiver that gets
\* every datagram, each returns the same buffer it would return running
\* alone, because the receive buffer and the frame buffer are local to one
\* call.
C26_InterleavedCapturesAsAlone ==
    /\ AsAlone(Locals)
    /\ AsAlone(other)
    /\ Received(log) \o stream = Received(other.log) \o other.stream
    /\ pc # "failed" /\ other.pc # "failed"
    /\ (pc = "complete" /\ other.pc = "complete") => ret = other.ret

\* both calls have run to their end, interleaved, and each has returned
\* the frame of two payloads
C26_Witness ==
    /\ pc = "complete"
    /\ other.pc = "complete"
    /\ Len(ret.frame) = 4
    /\ other.ret = ret
    /\ stream = <<>>

---------------------------------------------------------------------------
(* A further claim about scale_image, checked under SpecImage              *)

\* C32: for every factor f > 1 that scale_image accepts, the dimensions of
\* the output are exactly width*f and height*f as mathematical integers:
\* the 32-bit products 384*f and height*f never wrap around or abort.
C32_ScaledSizeIsExactProduct ==
    (Scaled /\ out.scale # None /\ out.scale[1] > 1) =>
       LET f == out.scale[1] IN
       /\ out.kind # "Panic"
       /\ ~mul_u32(img.width, f).over
       /\ ~mul_u32(img.height, f).over
       /\ out.kind = "Ok" =>
             /\ out.img.width \div f = img.width /\ out.img.width % f = 0
             /\ out.img.height \div f = img.height /\ out.img.height % f = 0

---------------------------------------------------------------------------
(* lib.rs: the memory writes of the REST client                            *)

\* `n as u16` of a usize n
as_u16(n) == n % (U16_MAX + 1)
\* `n as u8` of a usize n
as_u8(n) == n % 256

\* A byte slice &[u8] is held as its length and its first bytes, at most
\* HeadLen of them: the client reads no byte behind the second one and
\* sends the body as it got it.
HeadLen == 10
\* a slice given byte by byte
Bytes(s) == [len |-> Len(s), head |-> SubSeq(s, 1, Min(Len(s), HeadLen))]
\* &data[2..]
from_2(d) == [len |-> d.len - 2, head |-> SubSeq(d.head, 3, Len(d.head))]

\* self.post(&path, data.to_vec()): the request that is sent for an address
\* and a body, and whether send and check_response both succeeded
Request(address, data, ok) == [address |-> address, data |-> data, ok |-> ok]

\* a write_mem that checks the length before it is narrowed to 16 bits
write_mem_wide(address, data, ok) ==
    IF data.len > 0 /\ address + data.len - 1 > U16_MAX
    THEN [res |-> "Err", sent |-> <<>>]
    ELSE [res |-> IF ok THEN "Ok" ELSE "Err",
          sent |-> <<Request(address, data, ok)>>]

\* pub fn write_mem(&self, address: u16, data: &[u8]) -> Result<()>: what
\* the call returns and the requests it sends, when the device answers the
\* POST with success (ok) or not
write_mem(address, data, ok) ==
    IF check_address_overflow(address, as_u16(data.len)).kind = "Err"
    THEN [res |-> "Err", sent |-> <<>>]
    ELSE [res |-> IF ok THEN "Ok" ELSE "Err",
          sent |-> <<Request(address, data, ok)>>]

\* pub fn load_data(&self, data: &[u8], address: Option<u16>)
load_data(data, address, ok) ==
    IF address # None THEN write_mem(address[1], data, ok)
    ELSE LET load_address == extract_load_address(data.head)
         IN  IF load_address.kind = "Err" THEN [res |-> "Err", sent |-> <<>>]
             ELSE write_mem(load_address.value, from_2(data), ok)

\* const KEYBOARD_LSTX: u16 = 0xc5
KEYBOARD_LSTX == 197
\* const KEYBOARD_NDX: u16 = 0xc6
KEYBOARD_NDX == 198
\* const KEYBOARD_BUFFER: u16 = 0x277
KEYBOARD_BUFFER == 631
\* petscii.chunks(10)
CHUNK_SIZE == 10

\* chunks that overlap by one byte
chunks_overlap(s, n) ==
    [k \in 1..((Len(s) + n - 1) \div n) |->
        SubSeq(s, Max((k - 1) * n, 1), Min(k * n, Len(s)))]

\* slice::chunks(n): consecutive pieces of n elements, the last one shorter
\* when the length is no multiple of n
chunks(s, n) ==
    [k \in 1..((Len(s) + n - 1) \div n) |->
        SubSeq(s, (k - 1) * n + 1, Min(k * n, Len(s)))]

\* the step-th write_mem of the loop body of type_text for a chunk
\* (lines 294-296): its address and its data
chunk_write(chunk, step) ==
    IF step = 1 THEN [address |-> KEYBOARD_LSTX, data |-> Bytes(<<0, 0>>)]
    ELSE IF step = 2 THEN [address |-> KEYBOARD_BUFFER, data |-> Bytes(chunk)]
    ELSE [address |-> KEYBOARD_NDX, data |-> Bytes(<<as_u8(Len(chunk))>>)]

---------------------------------------------------------------------------
(* Specification SpecRest: one call of write_mem, load_data or type_text   *)
(* of the REST client, with every POST answered with success or failure.   *)
(* type_text is modelled one write_mem per step, from the PETSCII bytes.   *)

\* addresses at both ends and in the middle of the 16-bit range
RestAddresses == {0, 1, 2, 32768, 65534, 65535}

\* data lengths around 0 and around 2^16
DataLens == {0, 1, 2, 65535, 65536, 65537}

\* data of n bytes
Blob(n) == [len |-> n, head |-> [i \in 1..Min(n, HeadLen) |-> i % 256]]

\* a file of n bytes behind the two bytes lo, hi
File(lo, hi, n) ==
    [len |-> n + 2, head |-> <<lo, hi>> \o [i \in 1..Min(n, HeadLen - 2) |-> i % 256]]

\* files with a load address in their first two bytes, low byte first, and
\* files too short for one
LoadFiles ==
    {Bytes(<<>>), Bytes(<<1>>)}
    \cup {File(a[1], a[2], n) : a \in {<<1, 8>>, <<255, 255>>},
                               n \in {0, 1, 2, 65536}}

\* the PETSCII bytes of the texts typed: no text, one byte, one chunk, one
\* chunk and a byte, two chunks and a byte
MaxText == 21
PetsciiTexts ==
    {[i \in 1..n |-> 64 + i] : n \in {0, 1, CHUNK_SIZE, CHUNK_SIZE + 1, MaxText}}

InitRest ==
    /\ pc = "idle"
    /\ frame = <<>>
    /\ buf = <<>>
    /\ ret = NoRet
    /\ log = <<>>
    /\ stream = <<>>
    /\ lost = {}
    /\ img = NoImg
    /\ out = NoOut
    /\ calls = 0
    /\ sock = NoSock
    /\ snap = NoSnap
    /\ slot = None
    /\ mutex = "free"
    /\ feed = "capturing"
    /\ ui = UiIdle
    /\ prev = NoRet
    /\ other = NoOther
    /\ aux = NoAux
    /\ task = NoTask
    /\ wire = <<>>

\* a call of write_mem
WriteMem ==
    /\ task = NoTask
    /\ \E address \in RestAddresses, n \in DataLens, ok \in BOOLEAN :
          LET r == write_mem(address, Blob(n), ok) IN
          /\ task' = [fn |-> "write_mem", address |-> address, len |-> n,
                      res |-> r.res]
          /\ wire' = wire \o r.sent
    /\ UNCHANGED <<pc, frame, buf, ret, log, stream, lost, img, out, calls,
                   sock, snap, slot, mutex, feed, ui, prev, other, aux>>

\* a call of load_data
LoadData ==
    /\ task = NoTask
    /\ \E data \in LoadFiles, address \in {None} \cup {Some(a) : a \in RestAddresses},
          ok \in BOOLEAN :
          LET r == load_data(data, address, ok) IN
          /\ task' = [fn |-> "load_data", address |-> address, len |-> data.len,
                      res |-> r.res]
          /\ wire' = wire \o r.sent
    /\ UNCHANGED <<pc, frame, buf, ret, log, stream, lost, img, out, calls,
                   sock, snap, slot, mutex, feed, ui, prev, other, aux>>

\* type_text up to its loop (lines 275-293): basic_ready returns Ok(true),
\* the text is converted, and the loop runs over the chunks, if there are any
TypeStart ==
    /\ task = NoTask
    /\ \E petscii \in PetsciiTexts :
          task' = [fn |-> "type_text", petscii |-> petscii, chunk |-> 1, step |-> 1,
                   res |-> IF chunks(petscii, CHUNK_SIZE) = <<>> THEN "Ok"
                           ELSE "running"]
    /\ UNCHANGED <<pc, frame, buf, ret, log, stream, lost, img, out, calls,
                   sock, snap, slot, mutex, feed, ui, prev, other, aux, wire>>

\* the next self.write_mem(..)? of the loop body (lines 294-296): an error
\* returns from type_text; behind the third write of the last chunk the
\* loop ends and type_text returns Ok(())
TypeWrite ==
    /\ task.fn = "type_text"
    /\ task.res = "running"
    /\ \E ok \in BOOLEAN :
          LET cs == chunks(task.petscii, CHUNK_SIZE)
              w == chunk_write(cs[task.chunk], task.step)
              r == write_mem(w.address, w.data, ok)
          IN  /\ wire' = wire \o r.sent
              /\ task' =
                   IF r.res = "Err" THEN [task EXCEPT !.res = "Err"]
                   ELSE IF task.step < 3 THEN [task EXCEPT !.step = @ + 1]
                   ELSE IF task.chunk < Len(cs)
                   THEN [task EXCEPT !.chunk = @ + 1, !.step = 1]
                   ELSE [task EXCEPT !.res = "Ok"]
    /\ UNCHANGED <<pc, frame, buf, ret, log, stream, lost, img, out, calls,
                   sock, snap, slot, mutex, feed, ui, prev, other, aux>>

NextRest == WriteMem \/ LoadData \/ TypeStart \/ TypeWrite

SpecRest == InitRest /\ [][NextRest]_vars

\* C31: write_mem(address, data) sends a write request only when
\* address + len(data) - 1 <= 0xFFFF, for every length of the data, lengths
\* of 65536 bytes and more included (the length is not reduced modulo 2^16
\* before the overflow check); load_data inherits the same guarantee.
C31_WriteStaysInAddressSpace ==
    \A i \in 1..Len(wire) : wire[i].address + wire[i].data.len - 1 <= 65535

\* the number of chunks of at most 10 bytes that n bytes make
ChunkCount(n) == (n + 9) \div 10

\* the c-th piece of 10 bytes of the text p, the last one shorter
Piece(p, c) == SubSeq(p, 10 * (c - 1) + 1, Min(10 * c, Len(p)))

\* the writes the client has sent are the first writes of the sequence that
\* the text p asks for: for each piece in order a write of two zero bytes
\* to 0xC5, a write of the piece to 0x277, a write of its length to 0xC6
WritesInOrder(p) ==
    /\ Len(wire) <= 3 * ChunkCount(Len(p))
    /\ \A i \in 1..Len(wire) :
          LET c == ((i - 1) \div 3) + 1
              k == ((i - 1) % 3) + 1
              w == wire[i]
          IN  /\ k = 1 => (w.address = 197 /\ w.data = Bytes(<<0, 0>>))
              /\ k = 2 => /\ w.address = 631
                          /\ w.data = Bytes(Piece(p, c))
                          /\ w.data.len \in 1..10
                          /\ w.data.head = Piece(p, c)
              /\ k = 3 => /\ w.address = 198
                          /\ w.data = Bytes(<<Len(Piece(p, c))>>)
                          /\ w.data.head[1] \in 1..10

\* C33: type_text splits the PETSCII bytes into consecutive chunks of at
\* most 10 bytes and, for each chunk in order, issues exactly three memory
\* writes in this order: clear 0xC5..0xC6, write the chunk to the keyboard
\* buffer at 0x277, write the chunk length (1 to 10) to 0xC6; the chunks
\* concatenated equal the input, and a failed write stops the sequence with
\* no later write issued.
C33_TypeTextWritesChunksInOrder ==
    task.fn = "type_text" =>
        LET p == task.petscii IN
        /\ WritesInOrder(p)
        /\ \A i \in 1..(Len(wire) - 1) : wire[i].ok
        /\ task.res = "running" => \A i \in 1..Len(wire) : wire[i].ok
        /\ task.res = "Err" => (wire # <<>> /\ ~wire[Len(wire)].ok)
        /\ task.res = "Ok" =>
              /\ Len(wire) = 3 * ChunkCount(Len(p))
              /\ \A i \in 1..Len(wire) : wire[i].ok
              /\ Concat([c \in 1..ChunkCount(Len(p)) |-> wire[3 * c - 1].data.head]) = p

\* a text of one chunk and one byte has been typed with six writes
C33_Witness ==
    /\ task.fn = "type_text"
    /\ task.res = "Ok"
    /\ Len(task.petscii) = 11
    /\ Len(wire) = 6
    /\ wire[2].data.head = SubSeq(task.petscii, 1, 10)
    /\ wire[3].data.head = <<10>>
    /\ wire[5].data.head = <<task.petscii[11]>>
    /\ wire[6].data.head = <<1>>

=============================================================================
